---- MODULE Spec2Model ----
(***************************************************************************)
(* Host-resource provisioning layer of multipass (Linux backend utils).    *)
(*                                                                         *)
(* Bridge provisioning: create_bridge_with talks to NetworkManager over    *)
(* the D-Bus system bus: it resolves two interfaces, adds a parent         *)
(* (bridge) and a child (slave) connection, activates the child, and       *)
(* deletes what it added when a step fails (scope guard).                  *)
(*                                                                         *)
(* Subnet allocation: get_subnet returns the prefix of the bridge's route, *)
(* else the prefix persisted in the subnet file, else a random 10.a.b that *)
(* passed the routing-table check and both gateway probes (at most 100     *)
(* candidates), which it writes to the file.                               *)
(*                                                                         *)
(* Image operations: resize_instance_image and convert_to_qcow_if_necessary*)
(* run qemu-img processes and turn their failures into exceptions.         *)
(*                                                                         *)
(* MemorySize: the constructor parses a string of digits, an optional unit *)
(* letter and an optional B into a long long byte count, or throws.        *)
(*                                                                         *)
(* kvm checks: check_for_kvm_support runs the helper check_kvm_support and *)
(* check_if_kvm_is_in_use opens /dev/kvm and asks it for a VM.             *)
(*                                                                         *)
(* Strings that the code builds with fmt::format are modelled as the       *)
(* sequence of their fragments (the template's literal parts and the       *)
(* formatted arguments, in order); names that the code slices (the bridge  *)
(* name) are sequences of one-character strings.                           *)
(***************************************************************************)
EXTENDS Integers, Sequences, FiniteSets, TLC

VARIABLES
    pc,           \* per call: position in create_bridge_with
    interface,    \* per call: the `interface` argument (sequence of characters)
    nm_root,      \* per call: the resolved root interface handle
    nm_settings,  \* per call: the resolved Settings interface handle
    parent_path,  \* per call: QDBusObjectPath parent_path
    child_path,   \* per call: QDBusObjectPath child_path
    armed,        \* per call: rollback_guard exists and was not dismissed
    rb_list,      \* per call: the initializer list {child_path, parent_path} of the rollback loop
    rb_i,         \* per call: index of the rollback loop
    exc,          \* per call: what() of the exception in flight / surfaced (<<>> if none)
    calls,        \* per call: history of the bus operations it made, with their outcomes
    log,          \* per call: the log lines it wrote
    connections,  \* the bus: object paths of the registered connections
    active,       \* the bus: object paths whose activation succeeded
    next_id       \* the bus: index of the next fresh connection object path

VARIABLES
    routes,         \* the host: output of `ip -4 route show` (text, lines end with "\n")
    subnet_file,    \* the host: content of <network_dir>/multipass_subnet (empty if absent)
    gs_pc,          \* per call: position in get_subnet
    gs_bridge_name, \* per call: the `bridge_name` argument
    gs_file,        \* per call: the content it found in the subnet file when it opened it
    gs_i,           \* per call: the loop variable i of generate_random_subnet
    gs_draws,       \* per call: number of candidates formatted from the random engine
    gs_ops,         \* per call: the kinds of host operations the call has made
    gs_checks,      \* per call: what the three checks answered in the iteration that returned
    gs_result,      \* per call: the returned string (NoResult while none)
    gs_exc          \* per call: what() of the exception that left get_subnet (<<>> if none)

VARIABLES
    im_pc,          \* position in the image operation under way
    im_op,          \* the image operation that was called
    im_image_path,  \* the `image_path` argument
    im_disk_space,  \* the `disk_space` argument of resize_instance_image (a MemorySize)
    im_procs,       \* history of the qemu-img processes executed, with their outcomes
    im_result,      \* the returned path (NoResult while none)
    im_exc          \* what() of the exception that left the operation (<<>> if none)

VARIABLES
    ms_pc,          \* position in the construction of a MemorySize
    ms_input,       \* the string the MemorySize is constructed from
    ms_bytes,       \* the member `bytes` of the constructed MemorySize
    ms_exc,         \* what the constructor threw (<<>> if nothing)
    ms_other,       \* the member `bytes` of a second MemorySize, to compare with
    ms_out          \* the last accessor or operator called, with what it returned

VARIABLES
    kvm_pc,         \* position in the kvm check under way
    kvm_op,         \* the kvm check that was called
    errno,          \* the thread's errno
    fds,            \* the file descriptors the process holds open
    kvm_fd,         \* check_if_kvm_is_in_use: the local kvm_fd
    kvm_ret,        \* check_if_kvm_is_in_use: the local ret
    kvm_trace,      \* the system calls and process operations made, with their results
    kvm_exc         \* what() of the exception that left the check (<<>> if none)

bridgeVars == <<pc, interface, nm_root, nm_settings, parent_path, child_path, armed,
                rb_list, rb_i, exc, calls, log, connections, active, next_id>>

subnetVars == <<routes, subnet_file, gs_pc, gs_bridge_name, gs_file, gs_i, gs_draws,
                gs_ops, gs_checks, gs_result, gs_exc>>

imageVars == <<im_pc, im_op, im_image_path, im_disk_space, im_procs, im_result, im_exc>>

memoryVars == <<ms_pc, ms_input, ms_bytes, ms_exc, ms_other, ms_out>>

kvmVars == <<kvm_pc, kvm_op, errno, fds, kvm_fd, kvm_ret, kvm_trace, kvm_exc>>

vars == <<pc, interface, nm_root, nm_settings, parent_path, child_path, armed,
          rb_list, rb_i, exc, calls, log, connections, active, next_id,
          subnetVars, imageVars, memoryVars, kvmVars>>

----------------------------------------------------------------------------
(* Bounds of the model *)

\* longest interface name drawn as an input
MaxIfaceLen == 13

\* the calls of create_bridge_with that a behaviour may hold
Calls == {1, 2}

\* the interface names a call may be given: a short one, one that makes
\* "br-" + name exactly max_bridge_name_len long, and the longest one
IfaceName(n) == [i \in 1..n |-> IF i = 1 THEN "e" ELSE IF i = n THEN "0" ELSE "x"]
Interfaces == {IfaceName(4), IfaceName(MaxIfaceLen - 1), IfaceName(MaxIfaceLen)}

\* the object paths NetworkManager hands out for new connections, in order
PathPool == <<"/org/freedesktop/NetworkManager/Settings/1",
              "/org/freedesktop/NetworkManager/Settings/2",
              "/org/freedesktop/NetworkManager/Settings/3",
              "/org/freedesktop/NetworkManager/Settings/4">>

----------------------------------------------------------------------------
(* Program constants *)

nm_bus_name == "org.freedesktop.NetworkManager"
nm_root_obj == "/org/freedesktop/NetworkManager"
nm_root_ifc == "org.freedesktop.NetworkManager"
nm_settings_obj == "/org/freedesktop/NetworkManager/Settings"
nm_settings_ifc == "org.freedesktop.NetworkManager.Settings"
nm_connection_ifc == "org.freedesktop.NetworkManager.Settings.Connection"
max_bridge_name_len == 15
base_name == <<"b", "r", "-">>
root_path_null == ""
root_path == "/"
log_category_create == "create bridge"
log_category_rollback == "rollback bridge"

\* QDBusObjectPath{}: the path string is null
NullPath == ""

----------------------------------------------------------------------------
(* The bus as seen by the wrappers: errors, replies, interface handles *)

\* QDBusError: valid with a message, or not valid (no error / no message)
DBusErrors == {[valid |-> TRUE, message |-> "DBus error msg"],
               [valid |-> TRUE, message |-> "other DBus error msg"],
               [valid |-> FALSE, message |-> ""]}
NoError == [valid |-> FALSE, message |-> ""]

\* QDBusReply<T>: valid with a value, or not valid with the error of the reply
ValidReply(v) == [valid |-> TRUE, error |-> NoError, value |-> v]
InvalidReplies == {[valid |-> FALSE, error |-> e, value |-> NullPath] : e \in DBusErrors}

\* DBusConnection::get_interface: a handle on (service, path, interface)
get_interface(service, path, ifc) == [service |-> service, path |-> path, interface |-> ifc]
NoInterface == [service |-> "", path |-> "", interface |-> ""]

\* one entry of the history of bus operations
BusOp(op, handle, method, args, ok, error, value) ==
    [op |-> op, service |-> handle.service, path |-> handle.path,
     interface |-> handle.interface, method |-> method, args |-> args,
     ok |-> ok, error |-> error, value |-> value]

NoException == <<>>

----------------------------------------------------------------------------
(* Pure helpers of backend_utils.cpp *)

\* the whole string, however long
left_whole(s, n) == s

\* QString::left(n)
left(s, n) == IF Len(s) <= n THEN s ELSE SubSeq(s, 1, n)

\* parent_name and child_name of create_bridge_with
parent_name(iface) == left(base_name \o iface, max_bridge_name_len)
child_name(iface) == parent_name(iface) \o <<"-", "c", "h", "i", "l", "d">>

\* payloads whose child names the bridge's interface instead of its own
make_connection_settings_bridge_ifname(parent, child, iface) ==
    << ("connection" :> ("type" :> "bridge" @@ "id" :> parent @@ "autoconnect-slaves" :> 1))
         @@ ("bridge" :> ("interface-name" :> parent)),
       ("connection" :> ("id" :> child @@ "type" :> "802-3-ethernet"
                          @@ "slave-type" :> "bridge" @@ "master" :> parent
                          @@ "interface-name" :> parent @@ "autoconnect-priority" :> 10)) >>

\* the two a{sa{sv}} payloads of AddConnection: <<arg1, arg2>>
make_connection_settings(parent, child, iface) ==
    << ("connection" :> ("type" :> "bridge" @@ "id" :> parent @@ "autoconnect-slaves" :> 1))
         @@ ("bridge" :> ("interface-name" :> parent)),
       ("connection" :> ("id" :> child @@ "type" :> "802-3-ethernet"
                          @@ "slave-type" :> "bridge" @@ "master" :> parent
                          @@ "interface-name" :> iface @@ "autoconnect-priority" :> 10)) >>

arg1(c) == make_connection_settings(parent_name(interface[c]), child_name(interface[c]), interface[c])[1]
arg2(c) == make_connection_settings(parent_name(interface[c]), child_name(interface[c]), interface[c])[2]

\* a prefix that ignores the rollback flag
failure_prefix_create_only(rollback) == "Could not create bridge"

\* the first argument of the format of CreateBridgeException
failure_prefix(rollback) ==
    IF rollback THEN "Could not rollback bridge" ELSE "Could not create bridge"

\* a CreateBridgeException that prints the error's message without asking whether
\* the error is valid
CreateBridgeException_no_validity(detail, dbus_error, rollback) ==
    <<failure_prefix(rollback), ". ">>
        \o detail
        \o <<": ", dbus_error.message>>

\* what() of CreateBridgeException: fmt::format("{}. {}: {}", prefix, detail, cause)
CreateBridgeException(detail, dbus_error, rollback) ==
    <<failure_prefix(rollback), ". ">>
        \o detail
        \o <<": ", IF dbus_error.valid THEN dbus_error.message ELSE "unknown cause">>

\* error_template of checked_dbus_call, formatted for a handle and a method
error_template(handle, method) ==
    <<"Failed DBus call. (Service: ", handle.service, "; Object: ", handle.path,
      "; Interface: ", handle.interface, "; Method: ", method, ")">>

\* a checked_dbus_call that does not look at the reply's validity
checked_dbus_call_unchecked(handle, method, reply, RollingBack) == NoException

\* checked_dbus_call: the exception it throws for a reply (NoException if it returns)
checked_dbus_call(handle, method, reply, RollingBack) ==
    IF ~reply.valid
    THEN CreateBridgeException(error_template(handle, method), reply.error, RollingBack)
    ELSE NoException

\* a get_checked_system_bus that does not ask is_connected
get_checked_system_bus_unchecked(is_connected, last_error) == NoException

\* get_checked_system_bus: the exception it throws (NoException if it returns the bus)
get_checked_system_bus(is_connected, last_error) ==
    IF ~is_connected
    THEN CreateBridgeException(<<"Failed to connect to D-Bus system bus">>, last_error, FALSE)
    ELSE NoException

\* a get_checked_interface that does not ask is_valid
get_checked_interface_unchecked(is_valid, last_error) == NoException

\* get_checked_interface: the exception it throws (NoException if it returns the handle)
get_checked_interface(is_valid, last_error) ==
    IF ~is_valid
    THEN CreateBridgeException(<<"Could not reach remote D-Bus object">>, last_error, FALSE)
    ELSE NoException

\* a rollback loop that forgets the parent
RollbackList_child_only(c) == <<child_path[c]>>

\* a loop over the child's path twice
RollbackList_child_twice(c) == <<child_path[c], child_path[c]>>

\* the rollback lambda's loop range: for (auto& obj_path : {child_path, parent_path})
RollbackList(c) == <<child_path[c], parent_path[c]>>

\* a rollback loop without the null test
IsNull_never(path) == FALSE

\* the rollback lambda's test on a path: !path.isNull()
IsNull(path) == path = NullPath

\* mp::top_catch_all(log_category, rollback) when rollback throws `thrown`: the
\* exception is caught and logged, nothing escapes
top_catch_all(category, thrown) ==
    [lines |-> <<[level |-> "error", category |-> category,
                  text |-> <<"Caught an unhandled exception: ">> \o thrown]>>,
     escaped |-> NoException]

\* a guard callback that calls the rollback lambda directly
GuardCallback_direct(category, thrown) == [lines |-> <<>>, escaped |-> thrown]

\* the scope guard's noexcept callback when the rollback lambda throws `thrown`:
\* it runs the lambda under top_catch_all
GuardCallback(category, thrown) == top_catch_all(category, thrown)

\* a success path that forgets to dismiss the guard
dismiss_forgotten(c) == armed

\* rollback_guard.dismiss()
dismiss(c) == [armed EXCEPT ![c] = FALSE]

----------------------------------------------------------------------------
(* Text: the strings the code formats, searches, splits and trims are      *)
(* sequences of one-character strings                                      *)

\* a returned value that does not exist (yet); no text equals it
NoResult == <<"<none>">>

DigitChar == <<"0", "1", "2", "3", "4", "5", "6", "7", "8", "9">>

\* the decimal notation of a natural number, as fmt's "{}" and QString::number write it
RECURSIVE Dec(_)
Dec(n) == IF n < 10 THEN <<DigitChar[n + 1]>>
          ELSE Dec(n \div 10) \o <<DigitChar[(n % 10) + 1]>>

\* QString::contains
contains(text, sub) ==
    \E i \in 0..(Len(text) - Len(sub)) : SubSeq(text, i + 1, i + Len(sub)) = sub

\* QString::split(sep): the fields between the separators, empty fields kept
RECURSIVE split(_, _)
split(text, sep) ==
    IF \E i \in 1..Len(text) : text[i] = sep
    THEN LET k == CHOOSE i \in 1..Len(text) :
                      text[i] = sep /\ \A j \in 1..(i - 1) : text[j] # sep
         IN <<SubSeq(text, 1, k - 1)>> \o split(SubSeq(text, k + 1, Len(text)), sep)
    ELSE <<text>>

\* the fields joined again with the separator between them
RECURSIVE join(_, _)
join(fields, sep) ==
    IF Len(fields) = 0 THEN <<>>
    ELSE IF Len(fields) = 1 THEN fields[1]
    ELSE fields[1] \o <<sep>> \o join(Tail(fields), sep)

\* QString::section(sep, start, end): fields start..end (counted from 0), separators kept between
section(text, sep, start, end) ==
    LET fields == split(text, sep)
        last == IF end + 1 < Len(fields) THEN end + 1 ELSE Len(fields)
    IN join(SubSeq(fields, start + 1, last), sep)

Whitespace == {" ", "\n", "\t", "\r"}

\* everything is removed
trimmed_to_nothing(text) == <<>>

\* QByteArray::trimmed: whitespace removed from both ends
RECURSIVE trimmed(_)
trimmed(text) ==
    IF Len(text) = 0 THEN text
    ELSE IF Head(text) \in Whitespace THEN trimmed(Tail(text))
    ELSE IF text[Len(text)] \in Whitespace THEN trimmed(SubSeq(text, 1, Len(text) - 1))
    ELSE text

----------------------------------------------------------------------------
(* Subnet allocation: the pure parts *)

\* one iteration more
max_candidates_plus_one == 100 + 1

\* the loop bound of generate_random_subnet: for (auto i = 0; i < 100; ++i)
max_candidates == 100

\* the range of dist: std::uniform_int_distribution<int> dist{0, 255}
dist_min == 0
dist_max == 255

\* the values of dist(gen) that the model draws: both ends of the range and
\* two values in between
Octets == {dist_min, 1, 10, dist_max}

\* fmt::format("10.{}.{}", dist(gen), dist(gen))
format_subnet(a, b) == <<"1", "0", ".">> \o Dec(a) \o <<".">> \o Dec(b)

\* fmt::format("{}.1", subnet) and fmt::format("{}.254", subnet)
gateway_low(subnet) == subnet \o <<".", "1">>
gateway_high(subnet) == subnet \o <<".", "2", "5", "4">>

\* the command line of the gateway probe
ping_cmd(ip) ==
    [cmd |-> "ping", args |-> <<"-n", "-q", ip, "-c", <<"-", "1">>, "-W", <<"1">>>>]

\* ping accepts the value of -c: a decimal number that is at least 1
count_accepted(text) ==
    /\ Len(text) > 0
    /\ \A i \in 1..Len(text) : \E d \in 1..10 : DigitChar[d] = text[i]
    /\ \E i \in 1..Len(text) : text[i] # "0"

\* the exit status of the ping command that can_reach_gateway runs: 2 when ping
\* refuses its command line, else 0 when the host answered and 1 when it did not
ping_exit_status(args, answers) ==
    IF ~(args[4] = "-c" /\ count_accepted(args[5])) THEN 2
    ELSE IF answers THEN 0
    ELSE 1

\* mp::utils::run_cmd_for_status: the command exited with status 0
run_cmd_for_status(exit_status) == exit_status = 0

\* subnet_used_locally, given the output of the routing-table query
subnet_used_locally(subnet, output) == contains(output, subnet)

\* can_reach_gateway, given whether a host answers on the address
can_reach_gateway(ip, answers) ==
    [probe |-> ping_cmd(ip),
     answers |-> answers,
     reached |-> run_cmd_for_status(ping_exit_status(ping_cmd(ip).args, answers))]

\* a probe that was not made
NoProbe == [probe |-> [cmd |-> "", args |-> <<>>], answers |-> FALSE, reached |-> FALSE]

\* no line is ever taken to contain the bridge name
virtual_switch_subnet_no_match(bridge_name, output) == [subnet |-> <<>>, isNull |-> TRUE]

\* virtual_switch_subnet, given the output of the routing-table query: the first
\* three '.'-separated fields of the first line that contains bridge_name; a null
\* string (and a log line) when no line contains it
virtual_switch_subnet(bridge_name, output) ==
    LET lines == split(output, "\n")
        hits == {i \in 1..Len(lines) : contains(lines[i], bridge_name)}
    IN IF hits = {}
       THEN [subnet |-> <<>>, isNull |-> TRUE]
       ELSE LET first == CHOOSE i \in hits : \A j \in hits : i <= j
            IN [subnet |-> section(lines[first], ".", 0, 2), isNull |-> FALSE]

\* an iteration that does not look at the routing-table check
candidate_survives_routes_unchecked(used, low, high) == ~low.reached /\ ~high.reached

\* whether an iteration returns its candidate: none of the three checks said `continue`
\* (lines 193-202 of generate_random_subnet)
candidate_survives(used, low, high) == ~used /\ ~low.reached /\ ~high.reached

\* the exception of generate_random_subnet after the loop
subnet_exhausted == <<"Could not determine a subnet for networking.">>

\* a write that ends the prefix with a newline
file_write_with_newline(content, data) == data \o <<"\n">>

\* the bytes do not reach the file
file_write_lost(content, data) == content

\* a write that replaces the whole content of the file
file_write_truncating(content, data) == data

\* QFile::write at position 0 of a file opened ReadWrite: the bytes overwrite the
\* start of the content, what lies beyond them stays
file_write(content, data) ==
    data \o (IF Len(content) > Len(data) THEN SubSeq(content, Len(data) + 1, Len(content)) ELSE <<>>)

\* an operation on the host that a call of get_subnet made
HostOp(op, what) == [op |-> op, what |-> what]

----------------------------------------------------------------------------
(* MemorySize: a long long is the 64 bits of its two's complement, written *)
(* in base 1024 with the least significant limb first and no leading zero  *)
(* limbs (0 is the empty sequence)                                         *)

\* constexpr auto kilo = 1024LL; it is also the base of the limbs
kilo == 1024

\* 64 bits are six limbs of 10 bits and a seventh of 4 bits
long_long_limbs == 7
top_limb_size == 16
sign_limb == 8

\* x * m + carry, for a natural number x and small m and carry
RECURSIVE mul_add(_, _, _)
mul_add(x, m, carry) ==
    IF Len(x) = 0
    THEN IF carry = 0 THEN <<>> ELSE <<carry % kilo>> \o mul_add(<<>>, m, carry \div kilo)
    ELSE <<(Head(x) * m + carry) % kilo>> \o mul_add(Tail(x), m, (Head(x) * m + carry) \div kilo)

\* leading zero limbs removed
RECURSIVE strip(_)
strip(x) == IF Len(x) > 0 /\ x[Len(x)] = 0 THEN strip(SubSeq(x, 1, Len(x) - 1)) ELSE x

\* the low 64 bits of a natural number
wrap64(x) ==
    strip([i \in 1..(IF Len(x) < long_long_limbs THEN Len(x) ELSE long_long_limbs) |->
               IF i = long_long_limbs THEN x[i] % top_limb_size ELSE x[i]])

is_digit(ch) == \E d \in 1..10 : DigitChar[d] = ch
digit_value(ch) == CHOOSE d \in 0..9 : DigitChar[d + 1] = ch

\* the natural number that a string of decimal digits denotes
RECURSIVE from_decimal(_)
from_decimal(digits) ==
    IF Len(digits) = 0 THEN <<>>
    ELSE mul_add(from_decimal(SubSeq(digits, 1, Len(digits) - 1)), 10,
                 digit_value(digits[Len(digits)]))

\* the number is at most LLONG_MAX
fits_long_long(x) ==
    Len(x) < long_long_limbs \/ (Len(x) = long_long_limbs /\ x[long_long_limbs] < sign_limb)

\* QString::toLongLong of a digit string: 0 when the number does not fit
toLongLong(digits) ==
    LET v == from_decimal(digits) IN IF fits_long_long(v) THEN v ELSE <<>>

\* val *= kilo in 64 bits
times_kilo(val) == wrap64(IF Len(val) = 0 THEN <<>> ELSE <<0>> \o val)

\* the bit pattern is that of a negative long long
is_negative(x) == Len(x) = long_long_limbs /\ x[long_long_limbs] >= sign_limb

\* the magnitude of a negative long long
negate(x) ==
    wrap64(mul_add([i \in 1..long_long_limbs |->
                       IF i = long_long_limbs
                       THEN (top_limb_size - 1) - (IF i <= Len(x) THEN x[i] ELSE 0)
                       ELSE (kilo - 1) - (IF i <= Len(x) THEN x[i] ELSE 0)], 1, 1))

\* quotient and remainder of a natural number by a small divisor
RECURSIVE div_small(_, _)
div_small(x, d) ==
    IF Len(x) = 0 THEN [q |-> <<>>, r |-> 0]
    ELSE LET hi == div_small(Tail(x), d)
             cur == hi.r * kilo + Head(x)
         IN [q |-> <<cur \div d>> \o hi.q, r |-> cur % d]

\* the decimal digits of a positive natural number
RECURSIVE to_decimal(_)
to_decimal(x) ==
    IF Len(x) = 0 THEN <<>>
    ELSE LET dm == div_small(x, 10)
         IN to_decimal(strip(dm.q)) \o <<DigitChar[dm.r + 1]>>

\* QString::number(qlonglong)
QString_number(x) ==
    IF Len(x) = 0 THEN <<"0">>
    ELSE IF is_negative(x) THEN <<"-">> \o to_decimal(negate(x))
    ELSE to_decimal(x)

\* the unit letters and the byte letter of QRegExp("(\\d+)([KMG])?B?", Qt::CaseInsensitive)
UnitLetters == {"K", "M", "G", "k", "m", "g"}
ByteLetters == {"B", "b"}

\* the length of the run of digits at the start of a string
digits_prefix(s) ==
    CHOOSE n \in 0..Len(s) :
        /\ \A i \in 1..n : is_digit(s[i])
        /\ n = Len(s) \/ ~is_digit(s[n + 1])

\* a match of the start of the string only
exactMatch_prefix(s) ==
    LET n == digits_prefix(s)
        rest == SubSeq(s, n + 1, Len(s))
        unit == IF Len(rest) > 0 /\ rest[1] \in UnitLetters THEN <<rest[1]>> ELSE <<>>
    IN [matched |-> n >= 1,
        cap1 |-> SubSeq(s, 1, n),
        cap2 |-> unit]

\* a pattern whose digits are optional: (\\d*)([KMG])?B?
exactMatch_digits_optional(s) ==
    LET n == digits_prefix(s)
        rest == SubSeq(s, n + 1, Len(s))
        unit == IF Len(rest) > 0 /\ rest[1] \in UnitLetters THEN <<rest[1]>> ELSE <<>>
        tail == SubSeq(rest, Len(unit) + 1, Len(rest))
    IN [matched |-> Len(tail) = 0 \/ (Len(tail) = 1 /\ tail[1] \in ByteLetters),
        cap1 |-> SubSeq(s, 1, n),
        cap2 |-> unit]

\* matcher.exactMatch(mem_value), with cap(1) and cap(2)
exactMatch(s) ==
    LET n == digits_prefix(s)
        rest == SubSeq(s, n + 1, Len(s))
        unit == IF Len(rest) > 0 /\ rest[1] \in UnitLetters THEN <<rest[1]>> ELSE <<>>
        tail == SubSeq(rest, Len(unit) + 1, Len(rest))
    IN [matched |-> n >= 1 /\ (Len(tail) = 0 \/ (Len(tail) = 1 /\ tail[1] \in ByteLetters)),
        cap1 |-> SubSeq(s, 1, n),
        cap2 |-> unit]

\* ::in_bytes(mem_value): the byte count, or InvalidMemorySizeException
in_bytes(mem_value) ==
    IF Len(mem_value) = 0 THEN [valid |-> TRUE, bytes |-> <<>>]
    ELSE LET m == exactMatch(mem_value)
             val == toLongLong(m.cap1)
         IN IF ~m.matched THEN [valid |-> FALSE, bytes |-> <<>>]
            ELSE IF m.cap2 = <<>> THEN [valid |-> TRUE, bytes |-> val]
            ELSE IF m.cap2[1] \in {"G", "g"}
                 THEN [valid |-> TRUE, bytes |-> times_kilo(times_kilo(times_kilo(val)))]
            ELSE IF m.cap2[1] \in {"M", "m"}
                 THEN [valid |-> TRUE, bytes |-> times_kilo(times_kilo(val))]
            ELSE [valid |-> TRUE, bytes |-> times_kilo(val)]

\* MemorySize{val}.in_bytes() for a string the constructor accepts
MemorySize(val) == in_bytes(val).bytes

\* x / kilo^k for long long x: the quotient is truncated towards zero
divide(x, k) ==
    IF is_negative(x)
    THEN LET q == SubSeq(negate(x), k + 1, Len(negate(x)))
         IN IF Len(q) = 0 THEN <<>> ELSE negate(q)
    ELSE SubSeq(x, k + 1, Len(x))

\* the quotient rounded to the nearest unit
in_kilobytes_rounded(bytes) == divide(wrap64(mul_add(bytes, 1, kilo \div 2)), 1)

\* MemorySize::in_kilobytes, in_megabytes, in_gigabytes: bytes / kilo, / mega, / giga
in_kilobytes(bytes) == divide(bytes, 1)
in_megabytes(bytes) == divide(bytes, 2)
in_gigabytes(bytes) == divide(bytes, 3)

\* the order of two bit patterns read as unsigned numbers
unsigned_less(a, b) ==
    \/ Len(a) < Len(b)
    \/ /\ Len(a) = Len(b)
       /\ \E i \in 1..Len(a) : a[i] < b[i] /\ \A j \in (i + 1)..Len(a) : a[j] = b[j]

\* a.bytes < b.bytes for long long
bytes_less(a, b) ==
    IF is_negative(a) # is_negative(b) THEN is_negative(a) ELSE unsigned_less(a, b)

\* the six comparison operators of MemorySize, each on the members `bytes`
compare(op, a, b) ==
    CASE op = "==" -> a = b
      [] op = "!=" -> a # b
      [] op = "<" -> bytes_less(a, b)
      [] op = ">" -> bytes_less(b, a)
      [] op = "<=" -> bytes_less(a, b) \/ a = b
      [] op = ">=" -> bytes_less(b, a) \/ a = b

----------------------------------------------------------------------------
(* The image tool: qemu-img processes and the two operations that run them *)

\* how a process can end: exit code 0, exit code 1, a crash, a timeout
success == [exit_code |-> <<0>>, error |-> <<>>]
failure == [exit_code |-> <<1>>, error |-> <<>>]
crash == [exit_code |-> <<>>, error |-> <<[state |-> "Crashed", message |-> "core dumped"]>>]
timed_out == [exit_code |-> <<>>, error |-> <<[state |-> "Timedout", message |-> "timed out"]>>]
ProcessStates == {success, failure, crash, timed_out}

\* ProcessState::completed_successfully
completed_successfully(process_state) ==
    process_state.error = <<>> /\ process_state.exit_code = <<0>>

\* ProcessState::failure_message
failure_message(process_state) ==
    IF process_state.error # <<>> THEN process_state.error[1].message
    ELSE IF completed_successfully(process_state) THEN ""
    ELSE "Process returned exit code: 1"

\* what a process can have written to its standard error
StandardErrors == {"", "not found"}

\* mp::backend::image_resize_timeout, and execute() called without an argument, which
\* puts no bound on the time the process takes
image_resize_timeout == "image_resize_timeout"
default_timeout == "default"

\* every process is executed without a timeout argument
QemuImgProcess_without_timeout(args, timeout, process_state, stdout, stderr) ==
    [program |-> "qemu-img", args |-> args, timeout |-> default_timeout,
     state |-> process_state, stdout |-> stdout, stderr |-> stderr]

\* a qemu-img process that was executed: its command line, the timeout given to
\* execute, and how it ended
QemuImgProcess(args, timeout, process_state, stdout, stderr) ==
    [program |-> "qemu-img", args |-> args, timeout |-> timeout,
     state |-> process_state, stdout |-> stdout, stderr |-> stderr]

\* the resize parameters carry the size in units of kilo bytes
resize_parameters_in_kilobytes(disk_space, image_path) ==
    <<"resize", image_path, QString_number(strip(div_small(disk_space, kilo).q))>>

\* QStringList qemuimg_parameters{{"resize", image_path, disk_size}}
resize_parameters(disk_space, image_path) ==
    <<"resize", image_path, QString_number(disk_space)>>

\* a failed resize goes unnoticed
resize_error_ignored(process_state, stderr) == NoException

\* resize_instance_image: the exception for a process that did not complete successfully
resize_error(process_state, stderr) ==
    IF completed_successfully(process_state) THEN NoException
    ELSE <<"Cannot resize instance image: ", "qemu-img failed", " (",
           failure_message(process_state), ") with output:\n", stderr>>

\* const auto qcow2_path{image_path + ".qcow2"}
qcow2_path(image_path) == image_path \o <<".qcow2">>

info_parameters(image_path) == <<"info", "--output=json", image_path>>

convert_parameters(image_path) ==
    <<"convert", "-p", "-O", "qcow2", image_path, qcow2_path(image_path)>>

\* the standard error of the failed process is left out
info_error_without_output(process_state, stderr) ==
    IF completed_successfully(process_state) THEN NoException
    ELSE <<"Cannot read image format: ", "qemu-img failed", " (",
           failure_message(process_state), ")">>

\* convert_to_qcow_if_necessary: the exception for a failed info process
info_error(process_state, stderr) ==
    IF completed_successfully(process_state) THEN NoException
    ELSE <<"Cannot read image format: ", "qemu-img failed", " (",
           failure_message(process_state), ") with output:\n", stderr>>

\* a failed conversion goes unnoticed
convert_error_ignored(process_state, stderr) == NoException

\* convert_to_qcow_if_necessary: the exception for a failed convert process
convert_error(process_state, stderr) ==
    IF completed_successfully(process_state) THEN NoException
    ELSE <<"Failed to convert image format: ", "qemu-img failed", " (",
           failure_message(process_state), ") with output:\n", stderr>>

\* a JSON value of type string
JsonString(s) == [type |-> "string", value |-> s]
JsonNumber(n) == [type |-> "number", value |-> n]

\* what `qemu-img info --output=json` can have written to its standard output, as the
\* document QJsonDocument::fromJson makes of it: an object with its "format" member
\* (if any), a document that is no object, or text that is no JSON
JsonObject(format) == [json |-> TRUE, object |-> TRUE, format |-> format]
InfoOutputs == {JsonObject(<<JsonString("qcow2")>>),
                JsonObject(<<JsonString("raw")>>),
                JsonObject(<<JsonString("RAW")>>),
                JsonObject(<<JsonNumber("0")>>),
                JsonObject(<<>>),
                [json |-> TRUE, object |-> FALSE, format |-> <<>>],
                [json |-> FALSE, object |-> FALSE, format |-> <<>>]}

\* an image whose format cannot be read is taken for a raw one
image_format_raw_by_default(image_info) ==
    IF image_info.json /\ image_info.object /\ image_info.format # <<>>
       /\ image_info.format[1].type = "string"
    THEN image_info.format[1].value
    ELSE "raw"

\* QJsonDocument::fromJson(...).object()["format"].toString(): the string, or an
\* empty one when there is no such member or it is no string
image_format(image_info) ==
    IF image_info.json /\ image_info.object /\ image_info.format # <<>>
       /\ image_info.format[1].type = "string"
    THEN image_info.format[1].value
    ELSE ""

\* no format ever counts as raw
is_raw_never(image_info) == FALSE

\* image_record["format"].toString() == "raw"
is_raw(image_info) == image_format(image_info) = "raw"

\* no MemorySize is constructed
MemoryIdle ==
    /\ ms_pc = "absent"
    /\ ms_input = <<>>
    /\ ms_bytes = <<>>
    /\ ms_exc = NoException
    /\ ms_other = <<>>
    /\ ms_out = <<>>

\* the descriptors a process holds from its start: standard input, output and error
StdFds == {0, 1, 2}

\* no kvm check takes place
KvmIdle ==
    /\ kvm_pc = "absent"
    /\ kvm_op = ""
    /\ errno = 0
    /\ fds = StdFds
    /\ kvm_fd = 0
    /\ kvm_ret = 0
    /\ kvm_trace = <<>>
    /\ kvm_exc = NoException

\* no call of get_subnet takes place
SubnetIdle ==
    /\ routes = <<>>
    /\ subnet_file = <<>>
    /\ gs_pc = [c \in Calls |-> "absent"]
    /\ gs_bridge_name = [c \in Calls |-> <<>>]
    /\ gs_file = [c \in Calls |-> NoResult]
    /\ gs_i = [c \in Calls |-> 0]
    /\ gs_draws = [c \in Calls |-> 0]
    /\ gs_ops = [c \in Calls |-> {}]
    /\ gs_checks = [c \in Calls |-> <<>>]
    /\ gs_result = [c \in Calls |-> NoResult]
    /\ gs_exc = [c \in Calls |-> NoException]

\* no image operation takes place
ImageIdle ==
    /\ im_pc = "absent"
    /\ im_op = ""
    /\ im_image_path = <<>>
    /\ im_disk_space = <<>>
    /\ im_procs = <<>>
    /\ im_result = NoResult
    /\ im_exc = NoException

----------------------------------------------------------------------------
(* State *)

LogLine(level, category, text) == [level |-> level, category |-> category, text |-> text]

Record(c, entry) == [calls EXCEPT ![c] = Append(@, entry)]
Logged(c, line) == [log EXCEPT ![c] = Append(@, line)]

InitCommon ==
    /\ interface \in [Calls -> Interfaces]
    /\ nm_root = [c \in Calls |-> NoInterface]
    /\ nm_settings = [c \in Calls |-> NoInterface]
    /\ parent_path = [c \in Calls |-> NullPath]
    /\ child_path = [c \in Calls |-> NullPath]
    /\ armed = [c \in Calls |-> FALSE]
    /\ rb_list = [c \in Calls |-> <<>>]
    /\ rb_i = [c \in Calls |-> 0]
    /\ exc = [c \in Calls |-> NoException]
    /\ calls = [c \in Calls |-> <<>>]
    /\ log = [c \in Calls |-> <<>>]
    /\ connections = {}
    /\ active = {}
    /\ next_id = 1

\* one call of create_bridge_with; call 2 does not take place
Init ==
    /\ InitCommon
    /\ pc = [c \in Calls |-> IF c = 1 THEN "start" ELSE "absent"]
    /\ interface[2] = IfaceName(4)
    /\ SubnetIdle
    /\ ImageIdle
    /\ MemoryIdle
    /\ KvmIdle

----------------------------------------------------------------------------
(* create_bridge_with, one action per bus round trip or local step *)

\* const auto& system_bus = get_checked_system_bus();
GetSystemBus(c) ==
    /\ pc[c] = "start"
    /\ \E is_connected \in BOOLEAN, last_error \in DBusErrors :
         LET thrown == get_checked_system_bus(is_connected, last_error) IN
         /\ calls' = Record(c, BusOp("is_connected", NoInterface, "", <<>>, is_connected,
                                      IF is_connected THEN NoError ELSE last_error, NullPath))
         /\ exc' = [exc EXCEPT ![c] = thrown]
         /\ pc' = [pc EXCEPT ![c] = IF thrown = NoException THEN "nm_root" ELSE "exit"]
    /\ UNCHANGED <<interface, nm_root, nm_settings, parent_path, child_path, armed,
                   rb_list, rb_i, log, connections, active, next_id>>
    /\ UNCHANGED <<subnetVars, imageVars, memoryVars, kvmVars>>

\* auto nm_root = get_checked_interface(system_bus, nm_bus_name, nm_root_obj, nm_root_ifc);
GetRootInterface(c) ==
    /\ pc[c] = "nm_root"
    /\ \E is_valid \in BOOLEAN, last_error \in DBusErrors :
         LET ret == get_interface(nm_bus_name, nm_root_obj, nm_root_ifc)
             thrown == get_checked_interface(is_valid, last_error) IN
         /\ calls' = Record(c, BusOp("get_interface", ret, "", <<>>, is_valid,
                                      IF is_valid THEN NoError ELSE last_error, NullPath))
         /\ exc' = [exc EXCEPT ![c] = thrown]
         /\ nm_root' = [nm_root EXCEPT ![c] = IF thrown = NoException THEN ret ELSE @]
         /\ pc' = [pc EXCEPT ![c] = IF thrown = NoException THEN "nm_settings" ELSE "exit"]
    /\ UNCHANGED <<interface, nm_settings, parent_path, child_path, armed,
                   rb_list, rb_i, log, connections, active, next_id>>
    /\ UNCHANGED <<subnetVars, imageVars, memoryVars, kvmVars>>

\* auto nm_settings = get_checked_interface(system_bus, nm_bus_name, nm_settings_obj, nm_settings_ifc);
GetSettingsInterface(c) ==
    /\ pc[c] = "nm_settings"
    /\ \E is_valid \in BOOLEAN, last_error \in DBusErrors :
         LET ret == get_interface(nm_bus_name, nm_settings_obj, nm_settings_ifc)
             thrown == get_checked_interface(is_valid, last_error) IN
         /\ calls' = Record(c, BusOp("get_interface", ret, "", <<>>, is_valid,
                                      IF is_valid THEN NoError ELSE last_error, NullPath))
         /\ exc' = [exc EXCEPT ![c] = thrown]
         /\ nm_settings' = [nm_settings EXCEPT ![c] = IF thrown = NoException THEN ret ELSE @]
         /\ pc' = [pc EXCEPT ![c] = IF thrown = NoException THEN "prepare" ELSE "exit"]
    /\ UNCHANGED <<interface, nm_root, parent_path, child_path, armed,
                   rb_list, rb_i, log, connections, active, next_id>>
    /\ UNCHANGED <<subnetVars, imageVars, memoryVars, kvmVars>>

\* names, log line, settings, empty paths and the armed rollback guard (lines 339-350)
Prepare(c) ==
    /\ pc[c] = "prepare"
    /\ log' = Logged(c, LogLine("debug", log_category_create,
                                <<"Creating bridge: ">> \o parent_name(interface[c])))
    /\ parent_path' = [parent_path EXCEPT ![c] = NullPath]
    /\ child_path' = [child_path EXCEPT ![c] = NullPath]
    /\ armed' = [armed EXCEPT ![c] = TRUE]
    /\ pc' = [pc EXCEPT ![c] = "add_parent"]
    /\ UNCHANGED <<interface, nm_root, nm_settings, rb_list, rb_i, exc, calls,
                   connections, active, next_id>>
    /\ UNCHANGED <<subnetVars, imageVars, memoryVars, kvmVars>>

\* the replies the bus can give to AddConnection: a fresh object path, or an error
AddConnectionReplies ==
    (IF next_id <= Len(PathPool) THEN {ValidReply(PathPool[next_id])} ELSE {})
        \cup InvalidReplies

\* parent_path = checked_dbus_call<QDBusObjectPath>(*nm_settings, "AddConnection", arg1);
AddParent(c) ==
    /\ pc[c] = "add_parent"
    /\ \E reply \in AddConnectionReplies :
         LET thrown == checked_dbus_call(nm_settings[c], "AddConnection", reply, FALSE) IN
         /\ calls' = Record(c, BusOp("call", nm_settings[c], "AddConnection", <<arg1(c)>>,
                                      reply.valid, reply.error, reply.value))
         /\ connections' = IF reply.valid THEN connections \cup {reply.value} ELSE connections
         /\ next_id' = IF reply.valid THEN next_id + 1 ELSE next_id
         /\ exc' = [exc EXCEPT ![c] = thrown]
         /\ parent_path' = [parent_path EXCEPT ![c] = IF thrown = NoException THEN reply.value ELSE @]
         /\ pc' = [pc EXCEPT ![c] = IF thrown = NoException THEN "add_child" ELSE "exit"]
    /\ UNCHANGED <<interface, nm_root, nm_settings, child_path, armed, rb_list, rb_i,
                   log, active>>
    /\ UNCHANGED <<subnetVars, imageVars, memoryVars, kvmVars>>

\* child_path = checked_dbus_call<QDBusObjectPath>(*nm_settings, "AddConnection", arg2);
AddChild(c) ==
    /\ pc[c] = "add_child"
    /\ \E reply \in AddConnectionReplies :
         LET thrown == checked_dbus_call(nm_settings[c], "AddConnection", reply, FALSE) IN
         /\ calls' = Record(c, BusOp("call", nm_settings[c], "AddConnection", <<arg2(c)>>,
                                      reply.valid, reply.error, reply.value))
         /\ connections' = IF reply.valid THEN connections \cup {reply.value} ELSE connections
         /\ next_id' = IF reply.valid THEN next_id + 1 ELSE next_id
         /\ exc' = [exc EXCEPT ![c] = thrown]
         /\ child_path' = [child_path EXCEPT ![c] = IF thrown = NoException THEN reply.value ELSE @]
         /\ pc' = [pc EXCEPT ![c] = IF thrown = NoException THEN "activate" ELSE "exit"]
    /\ UNCHANGED <<interface, nm_root, nm_settings, parent_path, armed, rb_list, rb_i,
                   log, active>>
    /\ UNCHANGED <<subnetVars, imageVars, memoryVars, kvmVars>>

\* the replies the bus can give to ActivateConnection
ActivateReplies == {ValidReply("/org/freedesktop/NetworkManager/ActiveConnection/1")}
                       \cup InvalidReplies

\* checked_dbus_call<QDBusObjectPath>(*nm_root, "ActivateConnection", child_path, root_path, root_path);
Activate(c) ==
    /\ pc[c] = "activate"
    /\ \E reply \in ActivateReplies :
         LET thrown == checked_dbus_call(nm_root[c], "ActivateConnection", reply, FALSE) IN
         /\ calls' = Record(c, BusOp("call", nm_root[c], "ActivateConnection",
                                      <<child_path[c], root_path, root_path>>,
                                      reply.valid, reply.error, reply.value))
         /\ active' = IF reply.valid THEN active \cup {child_path[c]} ELSE active
         /\ exc' = [exc EXCEPT ![c] = thrown]
         /\ pc' = [pc EXCEPT ![c] = IF thrown = NoException THEN "dismiss" ELSE "exit"]
    /\ UNCHANGED <<interface, nm_root, nm_settings, parent_path, child_path, armed,
                   rb_list, rb_i, log, connections, next_id>>
    /\ UNCHANGED <<subnetVars, imageVars, memoryVars, kvmVars>>

\* rollback_guard.dismiss(); and the "Created bridge" log line, then the scope ends
Dismiss(c) ==
    /\ pc[c] = "dismiss"
    /\ armed' = dismiss(c)
    /\ log' = Logged(c, LogLine("info", log_category_create,
                                <<"Created bridge: ">> \o parent_name(interface[c])))
    /\ pc' = [pc EXCEPT ![c] = "exit"]
    /\ UNCHANGED <<interface, nm_root, nm_settings, parent_path, child_path,
                   rb_list, rb_i, exc, calls, connections, active, next_id>>
    /\ UNCHANGED <<subnetVars, imageVars, memoryVars, kvmVars>>

\* the scope of create_bridge_with ends (return or exception) with no armed guard
Leave(c) ==
    /\ pc[c] = "exit"
    /\ ~armed[c]
    /\ pc' = [pc EXCEPT ![c] = "done"]
    /\ UNCHANGED <<interface, nm_root, nm_settings, parent_path, child_path, armed,
                   rb_list, rb_i, exc, calls, log, connections, active, next_id>>
    /\ UNCHANGED <<subnetVars, imageVars, memoryVars, kvmVars>>

\* the scope ends with the guard armed: its callback logs and starts the rollback lambda
RunGuard(c) ==
    /\ pc[c] = "exit"
    /\ armed[c]
    /\ log' = Logged(c, LogLine("info", log_category_rollback, <<"Rolling back bridge">>))
    /\ rb_list' = [rb_list EXCEPT ![c] = RollbackList(c)]
    /\ rb_i' = [rb_i EXCEPT ![c] = 1]
    /\ pc' = [pc EXCEPT ![c] = "rollback"]
    /\ UNCHANGED <<interface, nm_root, nm_settings, parent_path, child_path, armed,
                   exc, calls, connections, active, next_id>>
    /\ UNCHANGED <<subnetVars, imageVars, memoryVars, kvmVars>>

\* the replies the bus can give to Delete
DeleteReplies == {ValidReply(NullPath)} \cup InvalidReplies

\* one iteration of the rollback lambda's loop; a throwing Delete leaves the loop
\* and the lambda, and the guard's callback deals with the exception
RollbackStep(c) ==
    /\ pc[c] = "rollback"
    /\ rb_i[c] <= Len(rb_list[c])
    /\ LET path == rb_list[c][rb_i[c]] IN
       IF IsNull(path)
       THEN /\ rb_i' = [rb_i EXCEPT ![c] = @ + 1]
            /\ UNCHANGED <<pc, calls, log, connections, exc>>
       ELSE \E reply \in DeleteReplies :
              LET connection == get_interface(nm_bus_name, path, nm_connection_ifc)
                  thrown == checked_dbus_call(connection, "Delete", reply, TRUE) IN
              /\ calls' = [calls EXCEPT ![c] =
                             @ \o <<BusOp("get_interface", connection, "", <<>>, TRUE, NoError, NullPath),
                                    BusOp("call", connection, "Delete", <<>>,
                                          reply.valid, reply.error, reply.value)>>]
              /\ connections' = IF reply.valid THEN connections \ {path} ELSE connections
              /\ IF thrown = NoException
                 THEN /\ rb_i' = [rb_i EXCEPT ![c] = @ + 1]
                      /\ UNCHANGED <<pc, log, exc>>
                 ELSE LET caught == GuardCallback(log_category_rollback, thrown) IN
                      /\ rb_i' = [rb_i EXCEPT ![c] = Len(rb_list[c]) + 1]
                      /\ log' = [log EXCEPT ![c] = @ \o caught.lines]
                      /\ exc' = exc
                      \* an exception that leaves a noexcept function ends the process
                      /\ pc' = [pc EXCEPT ![c] = IF caught.escaped = NoException
                                                 THEN @ ELSE "terminated"]
    /\ UNCHANGED <<interface, nm_root, nm_settings, parent_path, child_path, armed,
                   rb_list, active, next_id>>
    /\ UNCHANGED <<subnetVars, imageVars, memoryVars, kvmVars>>

\* the guard's callback returns; the scope is left
RollbackEnd(c) ==
    /\ pc[c] = "rollback"
    /\ rb_i[c] > Len(rb_list[c])
    /\ armed' = [armed EXCEPT ![c] = FALSE]
    /\ pc' = [pc EXCEPT ![c] = "done"]
    /\ UNCHANGED <<interface, nm_root, nm_settings, parent_path, child_path,
                   rb_list, rb_i, exc, calls, log, connections, active, next_id>>
    /\ UNCHANGED <<subnetVars, imageVars, memoryVars, kvmVars>>

Next ==
    \/ \E c \in Calls : GetSystemBus(c)
    \/ \E c \in Calls : GetRootInterface(c)
    \/ \E c \in Calls : GetSettingsInterface(c)
    \/ \E c \in Calls : Prepare(c)
    \/ \E c \in Calls : AddParent(c)
    \/ \E c \in Calls : AddChild(c)
    \/ \E c \in Calls : Activate(c)
    \/ \E c \in Calls : Dismiss(c)
    \/ \E c \in Calls : Leave(c)
    \/ \E c \in Calls : RunGuard(c)
    \/ \E c \in Calls : RollbackStep(c)
    \/ \E c \in Calls : RollbackEnd(c)

Spec == Init /\ [][Next]_vars

\* two calls of create_bridge_with on the same bus, interleaved at their bus round trips
InitTwo ==
    /\ InitCommon
    /\ pc = [c \in Calls |-> "start"]
    /\ SubnetIdle
    /\ ImageIdle
    /\ MemoryIdle
    /\ KvmIdle

SpecTwo == InitTwo /\ [][Next]_vars

----------------------------------------------------------------------------
(* get_subnet and generate_random_subnet, one action per blocking step *)

br0 == <<"b", "r", "0">>
br1 == <<"b", "r", "1">>
eth0 == <<"e", "t", "h", "0">>

\* a line of `ip -4 route show` for the /24 network 10.a.b.0 on a device
route_line(a, b, dev) ==
    format_subnet(a, b) \o <<".", "0", "/", "2", "4", " ", "d", "e", "v", " ">> \o dev
        \o <<" ", "s", "c", "o", "p", "e", " ", "l", "i", "n", "k", "\n">>

\* the routing tables of the host: none, one LAN route, a LAN route and the route of bridge br0
RouteTables == {<<>>,
                route_line(1, 10, eth0),
                route_line(1, 10, eth0) \o route_line(0, 255, br0)}

\* the bridge names a call may be given
BridgeNames == {br0, br1}

\* what the subnet file holds before the first call: nothing, or a prefix persisted earlier
FileContents == {<<>>, format_subnet(255, 1)}

\* calls of get_subnet made one after the other: call 1 under way, call 2 still to come
InitSubnet ==
    /\ InitCommon
    /\ pc = [c \in Calls |-> "absent"]
    /\ interface = [c \in Calls |-> IfaceName(4)]
    /\ ImageIdle
    /\ MemoryIdle
    /\ KvmIdle
    /\ routes \in RouteTables
    /\ subnet_file \in FileContents
    /\ gs_pc = [c \in Calls |-> IF c = 1 THEN "start" ELSE "idle"]
    /\ gs_bridge_name \in [Calls -> BridgeNames]
    /\ gs_file = [c \in Calls |-> NoResult]
    /\ gs_i = [c \in Calls |-> 0]
    /\ gs_draws = [c \in Calls |-> 0]
    /\ gs_ops = [c \in Calls |-> {}]
    /\ gs_checks = [c \in Calls |-> <<>>]
    /\ gs_result = [c \in Calls |-> NoResult]
    /\ gs_exc = [c \in Calls |-> NoException]

\* the next call of get_subnet is made once the calls before it are over
GS_Call(c) ==
    /\ gs_pc[c] = "idle"
    /\ \A d \in Calls \ {c} : gs_pc[d] = "done"
    /\ gs_pc' = [gs_pc EXCEPT ![c] = "start"]
    /\ UNCHANGED <<routes, subnet_file, gs_bridge_name, gs_file, gs_i, gs_draws, gs_ops,
                   gs_checks, gs_result, gs_exc>>
    /\ UNCHANGED <<bridgeVars, imageVars, memoryVars, kvmVars>>

\* auto subnet = virtual_switch_subnet(bridge_name); if (!subnet.empty()) return subnet;
GS_VirtualSwitch(c) ==
    /\ gs_pc[c] = "start"
    /\ LET vs == virtual_switch_subnet(gs_bridge_name[c], routes) IN
       /\ gs_ops' = [gs_ops EXCEPT ![c] =
                       @ \cup {HostOp("virtual_switch_subnet", "ip -4 route show")}
                         \cup (IF vs.isNull
                               THEN {HostOp("log", "Unable to determine subnet for the {} subnet")}
                               ELSE {})]
       /\ IF vs.subnet # <<>>
          THEN /\ gs_result' = [gs_result EXCEPT ![c] = vs.subnet]
               /\ gs_pc' = [gs_pc EXCEPT ![c] = "done"]
          ELSE /\ gs_pc' = [gs_pc EXCEPT ![c] = "open"]
               /\ UNCHANGED gs_result
    /\ UNCHANGED <<routes, subnet_file, gs_bridge_name, gs_file, gs_i, gs_draws, gs_checks, gs_exc>>
    /\ UNCHANGED <<bridgeVars, imageVars, memoryVars, kvmVars>>

\* the subnet file is opened (created empty if absent); a non-empty file is read and
\* returned, an empty one starts generate_random_subnet (gen.seed, i = 0)
GS_OpenFile(c) ==
    /\ gs_pc[c] = "open"
    /\ IF Len(subnet_file) > 0
       THEN /\ gs_ops' = [gs_ops EXCEPT ![c] = @ \cup {HostOp("file", "open"), HostOp("file", "size"),
                                                       HostOp("file", "readAll")}]
            /\ gs_result' = [gs_result EXCEPT ![c] = trimmed(subnet_file)]
            /\ gs_pc' = [gs_pc EXCEPT ![c] = "done"]
            /\ UNCHANGED gs_i
       ELSE /\ gs_ops' = [gs_ops EXCEPT ![c] = @ \cup {HostOp("file", "open"), HostOp("file", "size"),
                                                       HostOp("random", "seed")}]
            /\ gs_i' = [gs_i EXCEPT ![c] = 0]
            /\ gs_pc' = [gs_pc EXCEPT ![c] = "generate"]
            /\ UNCHANGED gs_result
    /\ gs_file' = [gs_file EXCEPT ![c] = subnet_file]
    /\ UNCHANGED <<routes, subnet_file, gs_bridge_name, gs_draws, gs_checks, gs_exc>>
    /\ UNCHANGED <<bridgeVars, imageVars, memoryVars, kvmVars>>

\* one iteration of the loop of generate_random_subnet: a candidate is formatted from
\* two draws, the routing table is searched for it, and unless a check already said
\* `continue` its two gateway addresses are probed
GRS_Candidate(c) ==
    /\ gs_pc[c] = "generate"
    /\ gs_i[c] < max_candidates
    /\ \E a \in Octets, b \in Octets, answers_low \in BOOLEAN, answers_high \in BOOLEAN :
         LET subnet == format_subnet(a, b)
             used == subnet_used_locally(subnet, routes)
             low == IF used THEN NoProbe
                    ELSE can_reach_gateway(gateway_low(subnet), answers_low)
             high == IF used \/ low.reached THEN NoProbe
                     ELSE can_reach_gateway(gateway_high(subnet), answers_high)
         IN /\ gs_draws' = [gs_draws EXCEPT ![c] = @ + 1]
            /\ gs_ops' = [gs_ops EXCEPT ![c] =
                            @ \cup {HostOp("random", "draw"), HostOp("subnet_used_locally", "ip -4 route show")}
                              \cup (IF used THEN {} ELSE {HostOp("can_reach_gateway", "ping")})]
            /\ IF candidate_survives(used, low, high)
               THEN /\ gs_checks' = [gs_checks EXCEPT ![c] =
                                       <<[subnet |-> subnet, used |-> used, low |-> low, high |-> high]>>]
                    /\ gs_pc' = [gs_pc EXCEPT ![c] = "write"]
                    /\ UNCHANGED gs_i
               ELSE /\ gs_i' = [gs_i EXCEPT ![c] = @ + 1]
                    /\ UNCHANGED <<gs_checks, gs_pc>>
    /\ UNCHANGED <<routes, subnet_file, gs_bridge_name, gs_file, gs_result, gs_exc>>
    /\ UNCHANGED <<bridgeVars, imageVars, memoryVars, kvmVars>>

\* the loop is over without a return: generate_random_subnet throws, and the exception
\* leaves get_subnet before the write
GRS_Exhausted(c) ==
    /\ gs_pc[c] = "generate"
    /\ gs_i[c] >= max_candidates
    /\ gs_exc' = [gs_exc EXCEPT ![c] = subnet_exhausted]
    /\ gs_pc' = [gs_pc EXCEPT ![c] = "done"]
    /\ UNCHANGED <<routes, subnet_file, gs_bridge_name, gs_file, gs_i, gs_draws, gs_ops,
                   gs_checks, gs_result>>
    /\ UNCHANGED <<bridgeVars, imageVars, memoryVars, kvmVars>>

\* subnet_file.write(new_subnet.data(), new_subnet.length()); return new_subnet;
GS_Write(c) ==
    /\ gs_pc[c] = "write"
    /\ LET new_subnet == gs_checks[c][1].subnet IN
       /\ subnet_file' = file_write(subnet_file, new_subnet)
       /\ gs_result' = [gs_result EXCEPT ![c] = new_subnet]
    /\ gs_ops' = [gs_ops EXCEPT ![c] = @ \cup {HostOp("file", "write")}]
    /\ gs_pc' = [gs_pc EXCEPT ![c] = "done"]
    /\ UNCHANGED <<routes, gs_bridge_name, gs_file, gs_i, gs_draws, gs_checks, gs_exc>>
    /\ UNCHANGED <<bridgeVars, imageVars, memoryVars, kvmVars>>

NextSubnet ==
    \/ \E c \in Calls : GS_Call(c)
    \/ \E c \in Calls : GS_VirtualSwitch(c)
    \/ \E c \in Calls : GS_OpenFile(c)
    \/ \E c \in Calls : GRS_Candidate(c)
    \/ \E c \in Calls : GRS_Exhausted(c)
    \/ \E c \in Calls : GS_Write(c)

SpecSubnet == InitSubnet /\ [][NextSubnet]_vars

\* a single call of get_subnet
InitSubnetOne ==
    /\ InitCommon
    /\ pc = [c \in Calls |-> "absent"]
    /\ interface = [c \in Calls |-> IfaceName(4)]
    /\ ImageIdle
    /\ MemoryIdle
    /\ KvmIdle
    /\ routes \in RouteTables
    /\ subnet_file \in FileContents
    /\ gs_pc = [c \in Calls |-> IF c = 1 THEN "start" ELSE "absent"]
    /\ gs_bridge_name \in [Calls -> BridgeNames]
    /\ gs_bridge_name[2] = br0
    /\ gs_file = [c \in Calls |-> NoResult]
    /\ gs_i = [c \in Calls |-> 0]
    /\ gs_draws = [c \in Calls |-> 0]
    /\ gs_ops = [c \in Calls |-> {}]
    /\ gs_checks = [c \in Calls |-> <<>>]
    /\ gs_result = [c \in Calls |-> NoResult]
    /\ gs_exc = [c \in Calls |-> NoException]

NextSubnetOne ==
    \/ \E c \in Calls : GS_VirtualSwitch(c)
    \/ \E c \in Calls : GS_OpenFile(c)
    \/ \E c \in Calls : GRS_Candidate(c)
    \/ \E c \in Calls : GRS_Exhausted(c)
    \/ \E c \in Calls : GS_Write(c)

\* two calls of get_subnet for the same network directory, interleaved at their
\* blocking steps: no route names the bridge, no route is one of a candidate, and
\* the subnet file is empty
InitSubnetTwo ==
    /\ InitCommon
    /\ pc = [c \in Calls |-> "absent"]
    /\ interface = [c \in Calls |-> IfaceName(4)]
    /\ ImageIdle
    /\ MemoryIdle
    /\ KvmIdle
    /\ routes \in {<<>>, route_line(2, 3, eth0)}
    /\ subnet_file = <<>>
    /\ gs_pc = [c \in Calls |-> "start"]
    /\ gs_bridge_name = [c \in Calls |-> br1]
    /\ gs_file = [c \in Calls |-> NoResult]
    /\ gs_i = [c \in Calls |-> 0]
    /\ gs_draws = [c \in Calls |-> 0]
    /\ gs_ops = [c \in Calls |-> {}]
    /\ gs_checks = [c \in Calls |-> <<>>]
    /\ gs_result = [c \in Calls |-> NoResult]
    /\ gs_exc = [c \in Calls |-> NoException]

\* on such a host no candidate is rejected, so the loop of generate_random_subnet
\* never runs out
NextSubnetTwo ==
    \/ \E c \in Calls : GS_VirtualSwitch(c)
    \/ \E c \in Calls : GS_OpenFile(c)
    \/ \E c \in Calls : GRS_Candidate(c)
    \/ \E c \in Calls : GS_Write(c)

SpecSubnetTwo == InitSubnetTwo /\ [][NextSubnetTwo]_vars

\* the loop of generate_random_subnet keeps running: an iteration that can be made is
\* eventually made, and so is the throw after the loop
SpecSubnetFair ==
    /\ InitSubnetOne
    /\ [][NextSubnetOne]_vars
    /\ \A c \in Calls : WF_subnetVars(GRS_Candidate(c)) /\ WF_subnetVars(GRS_Exhausted(c))

----------------------------------------------------------------------------
(* resize_instance_image and convert_to_qcow_if_necessary, one action per  *)
(* qemu-img process                                                        *)

\* the image paths a call may be given
ImagePaths == {<<"/fake/img/path">>, <<"imagine">>}

\* the strings the requested sizes are constructed from: 3G, 1234554321, 400M, 1K, and none
SizeStrings == {<<"3", "G">>,
                <<"1", "2", "3", "4", "5", "5", "4", "3", "2", "1">>,
                <<"4", "0", "0", "M">>,
                <<"1", "K">>,
                <<>>}

\* text on standard output that is no JSON
NoJson == [json |-> FALSE, object |-> FALSE, format |-> <<>>]

\* one call of one of the two image operations
InitImage ==
    /\ InitCommon
    /\ pc = [c \in Calls |-> "absent"]
    /\ interface = [c \in Calls |-> IfaceName(4)]
    /\ SubnetIdle
    /\ MemoryIdle
    /\ KvmIdle
    /\ im_pc = "call"
    /\ im_op \in {"resize_instance_image", "convert_to_qcow_if_necessary"}
    /\ im_image_path \in ImagePaths
    /\ im_disk_space \in {MemorySize(s) : s \in SizeStrings}
    /\ im_op = "convert_to_qcow_if_necessary" => im_disk_space = <<>>
    /\ im_procs = <<>>
    /\ im_result = NoResult
    /\ im_exc = NoException

\* resize_instance_image: the resize process is made and executed with the resize
\* timeout; an exception if it did not complete successfully
ResizeInstanceImage ==
    /\ im_pc = "call"
    /\ im_op = "resize_instance_image"
    /\ \E process_state \in ProcessStates, stderr \in StandardErrors :
         /\ im_procs' = Append(im_procs,
                               QemuImgProcess(resize_parameters(im_disk_space, im_image_path),
                                              image_resize_timeout, process_state, NoJson, stderr))
         /\ im_exc' = resize_error(process_state, stderr)
    /\ im_pc' = "done"
    /\ UNCHANGED <<im_op, im_image_path, im_disk_space, im_result>>
    /\ UNCHANGED <<bridgeVars, subnetVars, memoryVars, kvmVars>>

\* convert_to_qcow_if_necessary up to the test of the format: the info process is made
\* and executed without a timeout argument; an exception if it did not complete
\* successfully, else its output decides between returning image_path and converting
ConvertInfo ==
    /\ im_pc = "call"
    /\ im_op = "convert_to_qcow_if_necessary"
    /\ \E process_state \in ProcessStates, stderr \in StandardErrors, image_info \in InfoOutputs :
         LET thrown == info_error(process_state, stderr) IN
         /\ completed_successfully(process_state) \/ image_info = NoJson
         /\ im_procs' = Append(im_procs,
                               QemuImgProcess(info_parameters(im_image_path), default_timeout,
                                              process_state, image_info, stderr))
         /\ im_exc' = thrown
         /\ IF thrown # NoException
            THEN im_pc' = "done" /\ UNCHANGED im_result
            ELSE IF is_raw(image_info)
            THEN im_pc' = "convert" /\ UNCHANGED im_result
            ELSE im_pc' = "done" /\ im_result' = im_image_path
    /\ UNCHANGED <<im_op, im_image_path, im_disk_space>>
    /\ UNCHANGED <<bridgeVars, subnetVars, memoryVars, kvmVars>>

\* the raw branch: the convert process is made and executed with the resize timeout; an
\* exception if it did not complete successfully, else qcow2_path is returned
ConvertConvert ==
    /\ im_pc = "convert"
    /\ \E process_state \in ProcessStates, stderr \in StandardErrors :
         LET thrown == convert_error(process_state, stderr) IN
         /\ im_procs' = Append(im_procs,
                               QemuImgProcess(convert_parameters(im_image_path), image_resize_timeout,
                                              process_state, NoJson, stderr))
         /\ im_exc' = thrown
         /\ im_result' = IF thrown = NoException THEN qcow2_path(im_image_path) ELSE im_result
    /\ im_pc' = "done"
    /\ UNCHANGED <<im_op, im_image_path, im_disk_space>>
    /\ UNCHANGED <<bridgeVars, subnetVars, memoryVars, kvmVars>>

NextImage ==
    \/ ResizeInstanceImage
    \/ ConvertInfo
    \/ ConvertConvert

SpecImage == InitImage /\ [][NextImage]_vars

----------------------------------------------------------------------------
(* Reading the histories *)

\* the forward method calls of a call (AddConnection, ActivateConnection), in order
Forward(c) == SelectSeq(calls[c], LAMBDA e : e.op = "call" /\ e.method # "Delete")

\* the Delete calls of a call, in order
DeleteOps(c) == SelectSeq(calls[c], LAMBDA e : e.op = "call" /\ e.method = "Delete")

\* the object paths a sequence of bus operations was made on
Targets(ops) == [i \in 1..Len(ops) |-> ops[i].path]

\* the object paths the call's own successful AddConnection calls returned
OwnPaths(c) == {Forward(c)[i].value : i \in {j \in 1..Len(Forward(c)) :
                    Forward(c)[j].method = "AddConnection" /\ Forward(c)[j].ok}}

\* a fragment of a message
HasSubstr(what, s) == \E i \in 1..Len(what) : what[i] = s

\* the rollback callback ran for the call
RolledBack(c) == \E i \in 1..Len(log[c]) : log[c][i].text = <<"Rolling back bridge">>

----------------------------------------------------------------------------
(* Claims *)

ActivationFailed(c) == Len(Forward(c)) = 3 /\ ~Forward(c)[3].ok

\* C1: when ActivateConnection fails after both AddConnection calls succeeded,
\* Delete is invoked on the child connection object and then on the parent
\* connection object, in that order, and the caller receives the activation
\* failure ("Could not create bridge ... ActivateConnection"), not a rollback error.
C1_ActivationFailureDeletesChildThenParent ==
    \A c \in Calls :
        (pc[c] = "done" /\ ActivationFailed(c)) =>
            /\ Targets(DeleteOps(c)) = <<Forward(c)[2].value, Forward(c)[1].value>>
            /\ exc[c] # NoException
            /\ exc[c][1] = "Could not create bridge"
            /\ HasSubstr(exc[c], "ActivateConnection")
            /\ ~HasSubstr(exc[c], "Could not rollback bridge")

\* C2: the rollback invokes Delete on every non-null path among {child path,
\* parent path}, child first; a failing Delete on the child is swallowed and
\* logged and the Delete on the parent is still invoked.
C2_RollbackDeletesEveryNonNullPath ==
    \A c \in Calls :
        (pc[c] = "done" /\ RolledBack(c)) =>
            /\ Targets(DeleteOps(c)) =
                   SelectSeq(<<child_path[c], parent_path[c]>>, LAMBDA p : p # NullPath)
            /\ \A i \in 1..Len(DeleteOps(c)) :
                   ~DeleteOps(c)[i].ok =>
                       \E j \in 1..Len(log[c]) :
                           /\ log[c][j].level = "error"
                           /\ HasSubstr(log[c][j].text, DeleteOps(c)[i].path)

ChildAddFailed(c) == Len(Forward(c)) >= 2 /\ Forward(c)[1].ok /\ ~Forward(c)[2].ok

\* C4: when the second AddConnection (child settings) fails after the first
\* succeeded, the rollback invokes Delete exactly once, on the parent object path
\* the first call returned, invokes no Delete for the child, ActivateConnection is
\* never called, and the caller receives the AddConnection failure.
C4_ChildAddFailureDeletesParentOnly ==
    \A c \in Calls :
        ChildAddFailed(c) =>
            /\ Len(Forward(c)) = 2
            /\ Forward(c)[2].method = "AddConnection"
            /\ child_path[c] = NullPath
            /\ \A i \in 1..Len(DeleteOps(c)) : i = 1 /\ DeleteOps(c)[i].path = Forward(c)[1].value
            /\ pc[c] = "done" => Targets(DeleteOps(c)) = <<Forward(c)[1].value>>
            /\ exc[c] # NoException
            /\ exc[c][1] = "Could not create bridge"
            /\ exc[c][10] = "AddConnection"
            /\ exc[c][Len(exc[c])] = (IF Forward(c)[2].error.valid
                                      THEN Forward(c)[2].error.message ELSE "unknown cause")

\* the child AddConnection failed and the rollback has deleted the parent
C4_Witness ==
    \E c \in Calls :
        /\ pc[c] = "done"
        /\ ChildAddFailed(c)
        /\ Len(DeleteOps(c)) = 1
        /\ DeleteOps(c)[1].ok
        /\ OwnPaths(c) \cap connections = {}

ParentAddFailed(c) == Len(Forward(c)) >= 1 /\ ~Forward(c)[1].ok

\* C5: when the first AddConnection (parent settings) fails, the rollback runs
\* and is a no-op: no Delete call is made and no connection object is looked up,
\* no second AddConnection and no ActivateConnection is made, and the caller
\* receives "Could not create bridge ... Method: AddConnection".
C5_ParentAddFailureRollbackIsNoOp ==
    \A c \in Calls :
        ParentAddFailed(c) =>
            /\ Len(Forward(c)) = 1
            /\ Forward(c)[1].method = "AddConnection"
            /\ DeleteOps(c) = <<>>
            /\ \A i \in 1..Len(calls[c]) : calls[c][i].interface # nm_connection_ifc
            /\ calls[c][Len(calls[c])] = Forward(c)[1]
            /\ pc[c] = "done" => RolledBack(c)
            /\ exc[c] # NoException
            /\ exc[c][1] = "Could not create bridge"
            /\ exc[c][9] = "; Method: "
            /\ exc[c][10] = "AddConnection"

\* the parent AddConnection failed, the rollback ran and the call is over
C5_Witness ==
    \E c \in Calls :
        /\ pc[c] = "done"
        /\ ParentAddFailed(c)
        /\ RolledBack(c)
        /\ parent_path[c] = NullPath
        /\ child_path[c] = NullPath

Succeeded(c) == Len(Forward(c)) = 3 /\ \A i \in 1..3 : Forward(c)[i].ok

\* C6: when both AddConnection calls and ActivateConnection return valid
\* replies, the rollback is disarmed: no Delete call is made on the parent or
\* the child connection and the rollback callback does not run, neither before
\* nor after create_bridge_with returns (the property holds in every state from
\* the valid ActivateConnection reply on).
C6_SuccessDisarmsRollback ==
    \A c \in Calls :
        Succeeded(c) =>
            /\ DeleteOps(c) = <<>>
            /\ ~RolledBack(c)
            /\ pc[c] \in {"dismiss", "exit", "done"}
            /\ pc[c] \in {"exit", "done"} => ~armed[c]
            /\ exc[c] = NoException
            /\ OwnPaths(c) \subseteq connections

\* the call has returned successfully
C6_Witness ==
    \E c \in Calls :
        /\ pc[c] = "done"
        /\ Succeeded(c)
        /\ Cardinality(OwnPaths(c) \cap connections) = 2

DeleteFailed(c) == \E i \in 1..Len(DeleteOps(c)) : ~DeleteOps(c)[i].ok

\* C7: when a Delete call fails during rollback, that failure is only logged:
\* the exception in flight, which the caller receives, is still the creation
\* failure of the last forward call ("Could not create bridge ..."), never a
\* "Could not rollback bridge" error, and the call is in its rollback or has
\* come back to its caller.
C7_RollbackFailureOnlyLogged ==
    \A c \in Calls :
        DeleteFailed(c) =>
            /\ pc[c] \in {"rollback", "done"}
            /\ exc[c] # NoException
            /\ exc[c][1] = "Could not create bridge"
            /\ ~HasSubstr(exc[c], "Could not rollback bridge")
            /\ ~HasSubstr(exc[c], "Delete")
            /\ exc[c][10] = Forward(c)[Len(Forward(c))].method
            /\ ~Forward(c)[Len(Forward(c))].ok
            /\ \E j \in 1..Len(log[c]) :
                   /\ log[c][j].level = "error"
                   /\ log[c][j].category = "rollback bridge"
                   /\ HasSubstr(log[c][j].text, "Could not rollback bridge")

\* a Delete failed during rollback and the call is over
C7_Witness ==
    \E c \in Calls :
        /\ pc[c] = "done"
        /\ DeleteFailed(c)
        /\ OwnPaths(c) \cap connections # {}

BusDisconnected(c) ==
    Len(calls[c]) >= 1 /\ calls[c][1].op = "is_connected" /\ ~calls[c][1].ok

\* C8: when the system bus reports is_connected() = false, create_bridge_with
\* fails with a message that contains "Could not create bridge", "Failed to
\* connect to D-Bus system bus" and the bus's own error text, and makes no
\* further bus call: no interface is resolved, no AddConnection,
\* ActivateConnection or Delete is invoked and no rollback runs.
C8_DisconnectedBusIsTerminal ==
    \A c \in Calls :
        BusDisconnected(c) =>
            /\ Len(calls[c]) = 1
            /\ pc[c] \in {"exit", "done"}
            /\ ~armed[c]
            /\ log[c] = <<>>
            /\ HasSubstr(exc[c], "Could not create bridge")
            /\ HasSubstr(exc[c], "Failed to connect to D-Bus system bus")
            /\ calls[c][1].error.valid => exc[c][Len(exc[c])] = calls[c][1].error.message
            /\ OwnPaths(c) = {}

\* the bus was not connected, its error has a text, and the call is over
C8_Witness ==
    \E c \in Calls :
        /\ pc[c] = "done"
        /\ BusDisconnected(c)
        /\ calls[c][1].error.valid
        /\ HasSubstr(exc[c], "DBus error msg")

InterfaceInvalid(c) ==
    \E i \in 1..Len(calls[c]) : calls[c][i].op = "get_interface" /\ ~calls[c][i].ok

\* C9: when the root NetworkManager interface or the Settings interface is not
\* valid, create_bridge_with fails with a message that contains "Could not create
\* bridge" and "Could not reach remote D-Bus object", and the failure is terminal:
\* no AddConnection, ActivateConnection or Delete call is made, nothing follows
\* the failed resolution and no rollback runs.
C9_InvalidInterfaceIsTerminal ==
    \A c \in Calls :
        InterfaceInvalid(c) =>
            /\ ~calls[c][Len(calls[c])].ok
            /\ calls[c][Len(calls[c])].op = "get_interface"
            /\ calls[c][Len(calls[c])].path \in {nm_root_obj, nm_settings_obj}
            /\ \A i \in 1..Len(calls[c]) : calls[c][i].op # "call"
            /\ pc[c] \in {"exit", "done"}
            /\ ~armed[c]
            /\ ~RolledBack(c)
            /\ HasSubstr(exc[c], "Could not create bridge")
            /\ HasSubstr(exc[c], "Could not reach remote D-Bus object")
            /\ OwnPaths(c) = {}

\* the root interface was valid, the Settings interface was not, the call is over
C9_Witness ==
    \E c \in Calls :
        /\ pc[c] = "done"
        /\ InterfaceInvalid(c)
        /\ Len(calls[c]) = 3
        /\ calls[c][2].ok
        /\ calls[c][3].path = "/org/freedesktop/NetworkManager/Settings"

\* the text a failed method call must give: the call's service, object path,
\* interface and method, then the bus's message or "unknown cause"
ExpectedFailureText(e) ==
    <<"Failed DBus call. (Service: ", e.service, "; Object: ", e.path,
      "; Interface: ", e.interface, "; Method: ", e.method, ")", ": ",
      IF e.error.valid THEN e.error.message ELSE "unknown cause">>

\* C10: every failure raised by a bus method call carries the service, the object
\* path, the interface and the method of the failed call, followed by the
\* bus-reported error message when the bus error is valid and by "unknown cause"
\* when it is not. A forward call's failure is the exception in flight; a Delete's
\* failure is the exception the rollback logs.
C10_CallFailureCarriesCallAndCause ==
    \A c \in Calls :
        \A i \in 1..Len(calls[c]) :
            LET e == calls[c][i] IN
            (e.op = "call" /\ ~e.ok) =>
                /\ e.service = "org.freedesktop.NetworkManager"
                /\ e.method = "AddConnection" =>
                       /\ e.path = "/org/freedesktop/NetworkManager/Settings"
                       /\ e.interface = "org.freedesktop.NetworkManager.Settings"
                /\ e.method = "ActivateConnection" =>
                       /\ e.path = "/org/freedesktop/NetworkManager"
                       /\ e.interface = "org.freedesktop.NetworkManager"
                /\ e.method = "Delete" =>
                       /\ e.path \in OwnPaths(c)
                       /\ e.interface = "org.freedesktop.NetworkManager.Settings.Connection"
                /\ IF e.method # "Delete"
                   THEN /\ Len(exc[c]) = 13
                        /\ SubSeq(exc[c], 3, 13) = ExpectedFailureText(e)
                   ELSE \E j \in 1..Len(log[c]) :
                            /\ log[c][j].level = "error"
                            /\ Len(log[c][j].text) = 14
                            /\ SubSeq(log[c][j].text, 4, 14) = ExpectedFailureText(e)

\* a forward call failed with a bus error that is not valid and a Delete failed
\* with one that is
C10_Witness ==
    \E c \in Calls :
        /\ pc[c] = "done"
        /\ Len(Forward(c)) = 3
        /\ ~Forward(c)[3].ok /\ ~Forward(c)[3].error.valid
        /\ exc[c][13] = "unknown cause"
        /\ Len(DeleteOps(c)) = 1
        /\ ~DeleteOps(c)[1].ok /\ DeleteOps(c)[1].error.valid

----------------------------------------------------------------------------
(* Reading the history of a get_subnet call *)

\* the routing table has a line that contains the call's bridge name
RouteNamesBridge(c) == contains(routes, gs_bridge_name[c])

\* generate_random_subnet returned a prefix to the call
Generated(c) == gs_checks[c] # <<>>

\* the kinds of operation `op` that the call made
OpsOf(c, op) == {o \in gs_ops[c] : o.op = op}

\* the call made no step of an allocation: nothing drawn, no conflict check, no probe
AllocatedNothing(c) ==
    /\ gs_draws[c] = 0
    /\ OpsOf(c, "random") = {}
    /\ OpsOf(c, "subnet_used_locally") = {}
    /\ OpsOf(c, "can_reach_gateway") = {}

\* the step is one of call c
StepOf(c) == gs_pc'[c] # gs_pc[c] \/ gs_i'[c] # gs_i[c]

\* C11: a prefix that generate_random_subnet returns is not contained in the routing
\* table, the routing-table check of the iteration that produced it said "not used",
\* and both gateway probes of that iteration (on <prefix>.1 and on <prefix>.254) were
\* made and did not succeed; get_subnet returns that very prefix.
C11_ReturnedPrefixPassedAllChecks ==
    \A c \in Calls :
        Generated(c) =>
            LET k == gs_checks[c][1] IN
            /\ ~k.used
            /\ ~contains(routes, k.subnet)
            /\ k.low.probe = ping_cmd(k.subnet \o <<".", "1">>)
            /\ ~k.low.reached
            /\ k.high.probe = ping_cmd(k.subnet \o <<".", "2", "5", "4">>)
            /\ ~k.high.reached
            /\ gs_result[c] \in {NoResult, k.subnet}

\* a prefix was returned after at least one other candidate had been rejected, on a
\* host that has routes
C11_Witness ==
    \E c \in Calls :
        /\ gs_pc[c] = "done"
        /\ Generated(c)
        /\ gs_result[c] = gs_checks[c][1].subnet
        /\ gs_draws[c] >= 2
        /\ routes # <<>>

\* C12: when a line of the routing table contains bridge_name, get_subnet returns the
\* prefix 10.a.b of that route without an error, it never opens, reads or writes the
\* subnet file, and it draws and checks no candidate; no step of such a call changes
\* the content of the subnet file, whatever that content is.
C12_RouteOfBridgeTakesPriority ==
    /\ [](\A c \in Calls :
             (gs_pc[c] = "done" /\ RouteNamesBridge(c)) =>
                 /\ \E a \in Octets, b \in Octets :
                        gs_result[c] = <<"1", "0", ".">> \o Dec(a) \o <<".">> \o Dec(b)
                 /\ contains(routes, gs_result[c] \o <<".", "0", "/", "2", "4", " ", "d", "e", "v", " ">>
                                         \o gs_bridge_name[c])
                 /\ gs_exc[c] = NoException
                 /\ gs_file[c] = NoResult
                 /\ OpsOf(c, "file") = {}
                 /\ AllocatedNothing(c))
    /\ [][\A c \in Calls : (RouteNamesBridge(c) /\ StepOf(c)) => subnet_file' = subnet_file]_vars

\* a call returned the prefix of its bridge's route while the subnet file held another prefix
C12_Witness ==
    \E c \in Calls :
        /\ gs_pc[c] = "done"
        /\ RouteNamesBridge(c)
        /\ subnet_file # <<>>
        /\ gs_result[c] \notin {NoResult, subnet_file}

C14_SubnetReuseIsIdempotent ==
    \A c \in Calls, d \in Calls :
        (/\ c < d
         /\ Generated(c) /\ gs_pc[c] = "done" /\ HostOp("file", "write") \in gs_ops[c]
         /\ gs_pc[d] = "done" /\ ~RouteNamesBridge(d)) =>
            /\ gs_result[d] = gs_result[c]
            /\ gs_result[d] = gs_checks[c][1].subnet
            /\ gs_exc[d] = NoException
            /\ AllocatedNothing(d)
            /\ HostOp("file", "write") \notin gs_ops[d]
            /\ subnet_file = gs_result[c]

\* the second call returned the prefix that the first call had allocated
C14_Witness ==
    /\ Generated(1) /\ gs_pc[1] = "done"
    /\ gs_pc[2] = "done" /\ ~RouteNamesBridge(2)
    /\ gs_file[2] = gs_result[1]
    /\ gs_result[2] = gs_result[1]

\* C15: generate_random_subnet evaluates at most 100 candidates and always comes to an
\* end; a call that has evaluated 100 candidates without returning one fails with
\* "Could not determine a subnet for networking.", returns nothing, and neither the
\* failing step nor any other step of that call writes the subnet file.
C15_GenerationTerminates ==
    /\ [](\A c \in Calls :
             /\ gs_draws[c] <= 100
             /\ (gs_exc[c] # NoException) =>
                    /\ gs_exc[c] = <<"Could not determine a subnet for networking.">>
                    /\ gs_draws[c] = 100
                    /\ gs_pc[c] = "done"
                    /\ gs_result[c] = NoResult
                    /\ ~Generated(c)
                    /\ HostOp("file", "write") \notin gs_ops[c]
             /\ (gs_pc[c] = "done" /\ gs_draws[c] = 100 /\ ~Generated(c)) => gs_exc[c] # NoException)
    /\ [][\A c \in Calls : gs_exc'[c] # gs_exc[c] => subnet_file' = subnet_file]_vars
    /\ \A c \in Calls : (gs_pc[c] = "generate") ~> (gs_pc[c] \in {"write", "done"})

\* a call failed after 100 rejected candidates
C15_Witness ==
    \E c \in Calls :
        /\ gs_exc[c] = <<"Could not determine a subnet for networking.">>
        /\ gs_draws[c] = 100
        /\ gs_pc[c] = "done"

----------------------------------------------------------------------------
(* Reading the history of an image operation *)

\* the operation called and over
ConvertOver == im_op = "convert_to_qcow_if_necessary" /\ im_pc = "done"
ResizeOver == im_op = "resize_instance_image" /\ im_pc = "done"

\* the i-th qemu-img process of the operation was executed, and how it ended
Executed(i) == i <= Len(im_procs)
CompletedOk(i) == Executed(i) /\ completed_successfully(im_procs[i].state)
Failed(i) == Executed(i) /\ ~completed_successfully(im_procs[i].state)

\* the info process reported a JSON object whose "format" member is the string "raw"
ReportedRaw ==
    /\ CompletedOk(1)
    /\ im_procs[1].stdout = [json |-> TRUE, object |-> TRUE,
                             format |-> <<[type |-> "string", value |-> "raw"]>>]

\* C16: when the info process completes successfully and the reported format is not
\* "raw", convert_to_qcow_if_necessary returns image_path and qemu-img was run exactly
\* once (info --output=json <image_path>); when the format is "raw" a second process is
\* run (convert -p -O qcow2 <image_path> <image_path>.qcow2), and if that one completes
\* successfully the call returns <image_path>.qcow2 after exactly these two processes.
C16_ConversionOnlyForRaw ==
    (ConvertOver /\ CompletedOk(1)) =>
        /\ im_procs[1].program = "qemu-img"
        /\ im_procs[1].args = <<"info", "--output=json", im_image_path>>
        /\ ~ReportedRaw =>
              /\ im_result = im_image_path
              /\ im_exc = NoException
              /\ Len(im_procs) = 1
        /\ ReportedRaw =>
              /\ Len(im_procs) = 2
              /\ im_procs[2].program = "qemu-img"
              /\ im_procs[2].args = <<"convert", "-p", "-O", "qcow2", im_image_path,
                                      im_image_path \o <<".qcow2">>>>
              /\ CompletedOk(2) =>
                    /\ im_result = im_image_path \o <<".qcow2">>
                    /\ im_exc = NoException

\* a raw image was converted
C16_Witness ==
    /\ ConvertOver
    /\ ReportedRaw
    /\ CompletedOk(2)
    /\ im_result = im_image_path \o <<".qcow2">>

\* C17: when the info process does not complete successfully, convert_to_qcow_if_necessary
\* fails with an error that holds the failure message of the process and its captured
\* standard error; no convert process is run (one process in all) and no path is returned.
C17_InfoFailureStopsConversion ==
    (ConvertOver /\ Failed(1)) =>
        /\ im_exc # NoException
        /\ HasSubstr(im_exc, failure_message(im_procs[1].state))
        /\ HasSubstr(im_exc, im_procs[1].stderr)
        /\ Len(im_procs) = 1
        /\ im_result = NoResult

\* the info process crashed after writing to its standard error
C17_Witness ==
    /\ ConvertOver
    /\ Failed(1)
    /\ im_procs[1].state = crash
    /\ im_procs[1].stderr = "not found"
    /\ im_exc # NoException

\* C18: when the format is "raw" and the convert process does not complete successfully,
\* convert_to_qcow_if_necessary fails with an error that holds "qemu-img failed" and
\* returns neither path; qemu-img was run exactly twice (the conversion is not retried).
C18_ConvertFailureIsAnError ==
    (ConvertOver /\ ReportedRaw /\ Failed(2)) =>
        /\ im_exc # NoException
        /\ HasSubstr(im_exc, "qemu-img failed")
        /\ im_result = NoResult
        /\ Len(im_procs) = 2
        /\ im_procs[1].args[1] = "info"
        /\ im_procs[2].args[1] = "convert"

\* the conversion of a raw image failed
C18_Witness ==
    /\ ConvertOver
    /\ ReportedRaw
    /\ Failed(2)
    /\ im_procs[2].state = failure
    /\ im_exc # NoException

\* C19: resize_instance_image runs qemu-img exactly once, with the three arguments
\* resize, <image_path> and the requested size as a plain decimal byte count, and
\* executes it with image_resize_timeout; the third argument read back as a MemorySize
\* equals the requested size, and for 3G it is 3221225472.
C19_ResizeArguments ==
    ResizeOver =>
        /\ Len(im_procs) = 1
        /\ im_procs[1].program = "qemu-img"
        /\ Len(im_procs[1].args) = 3
        /\ im_procs[1].args[1] = "resize"
        /\ im_procs[1].args[2] = im_image_path
        /\ \A i \in 1..Len(im_procs[1].args[3]) : is_digit(im_procs[1].args[3][i])
        /\ in_bytes(im_procs[1].args[3]) = [valid |-> TRUE, bytes |-> im_disk_space]
        /\ im_procs[1].timeout = "image_resize_timeout"
        /\ im_disk_space = MemorySize(<<"3", "G">>) =>
              im_procs[1].args[3] = <<"3", "2", "2", "1", "2", "2", "5", "4", "7", "2">>

\* an image was resized to 3G
C19_Witness ==
    /\ ResizeOver
    /\ im_disk_space = MemorySize(<<"3", "G">>)
    /\ CompletedOk(1)
    /\ im_exc = NoException

\* C20: resize_instance_image fails whenever its process does not complete successfully
\* (exit code other than 0, crash or timeout): the error holds "qemu-img failed", the
\* failure message of the process and its captured standard error; the process is not
\* run again (one process in all), and the call returns normally only after a process
\* that completed successfully.
C20_ResizeFailureIsAnError ==
    ResizeOver =>
        /\ Len(im_procs) = 1
        /\ im_procs[1].state \in {failure, crash, timed_out} =>
              /\ im_exc # NoException
              /\ HasSubstr(im_exc, "qemu-img failed")
              /\ HasSubstr(im_exc, IF im_procs[1].state = failure
                                   THEN "Process returned exit code: 1"
                                   ELSE im_procs[1].state.error[1].message)
              /\ HasSubstr(im_exc, im_procs[1].stderr)
        /\ im_exc = NoException => im_procs[1].state = success

\* a resize process crashed after writing to its standard error
C20_Witness ==
    /\ ResizeOver
    /\ im_procs[1].state = crash
    /\ im_procs[1].stderr = "not found"
    /\ im_exc # NoException


(***************************************************************************)
(* Constructing a MemorySize from a string                                 *)
(***************************************************************************)

\* the longest string drawn from the alphabet
MaxSizeLen == 3

\* the characters the drawn strings are made of
SizeAlphabet == {"0", "1", "7", "K", "m", "G", "B", "b", "-", " ", ".", "a"}

\* strings beyond the drawn length: the ends of the range of long long
LongSizeInputs ==
    {<<"1", ".", "5", "G">>,
     <<"1", "0", "2", "4", "K", "B">>,
     <<"1", "2", "3", "4", "5", "5", "4", "3", "2", "1">>,
     <<"8", "5", "8", "9", "9", "3", "4", "5", "9", "1", "G">>,
     <<"8", "5", "8", "9", "9", "3", "4", "5", "9", "2", "G">>,
     <<"9", "2", "2", "3", "3", "7", "2", "0", "3", "6", "8", "5", "4", "7", "7", "5", "8", "0", "7">>,
     <<"9", "2", "2", "3", "3", "7", "2", "0", "3", "6", "8", "5", "4", "7", "7", "5", "8", "0", "8">>}

SizeInputs == UNION {[1..n -> SizeAlphabet] : n \in 0..MaxSizeLen} \cup LongSizeInputs

\* how many times val is multiplied by kilo for a unit (kilo, mega, giga)
unit_power(unit) ==
    IF unit = <<>> THEN 0
    ELSE IF unit[1] \in {"K", "k"} THEN 1
    ELSE IF unit[1] \in {"M", "m"} THEN 2
    ELSE 3

\* x * kilo^k as a natural number, without a width
times_kilo_exact(x, k) == IF Len(x) = 0 THEN <<>> ELSE [i \in 1..k |-> 0] \o x

\* val *= giga (mega, kilo) leaves the range of long long: signed overflow
multiplication_overflows(mem_value) ==
    LET m == exactMatch(mem_value)
    IN /\ Len(mem_value) > 0
       /\ m.matched
       /\ ~fits_long_long(times_kilo_exact(toLongLong(m.cap1), unit_power(m.cap2)))

\* the exception of ::in_bytes: it carries the string that was passed
InvalidMemorySizeException(mem_value) == <<"InvalidMemorySizeException", mem_value>>

InitMemory ==
    /\ InitCommon
    /\ pc = [c \in Calls |-> "absent"]
    /\ interface = [c \in Calls |-> IfaceName(4)]
    /\ SubnetIdle
    /\ ImageIdle
    /\ KvmIdle
    /\ ms_pc = "call"
    /\ ms_input \in SizeInputs
    /\ ms_bytes = <<>>
    /\ ms_exc = NoException
    /\ ms_other = <<>>
    /\ ms_out = <<>>

\* MemorySize::MemorySize(val): bytes{::in_bytes(val)}
MS_Construct ==
    /\ ms_pc = "call"
    /\ in_bytes(ms_input).valid
    /\ ms_pc' = "constructed"
    /\ ms_bytes' = in_bytes(ms_input).bytes
    /\ UNCHANGED <<ms_input, ms_exc, ms_other, ms_out>>
    /\ UNCHANGED <<bridgeVars, subnetVars, imageVars, kvmVars>>

\* the same constructor when ::in_bytes throws
MS_Throw ==
    /\ ms_pc = "call"
    /\ ~in_bytes(ms_input).valid
    /\ ms_pc' = "thrown"
    /\ ms_exc' = InvalidMemorySizeException(ms_input)
    /\ UNCHANGED <<ms_input, ms_bytes, ms_other, ms_out>>
    /\ UNCHANGED <<bridgeVars, subnetVars, imageVars, kvmVars>>

\* the multiplication overflows in a build that traps on signed overflow:
\* the process is terminated inside the constructor
MS_Trap ==
    /\ ms_pc = "call"
    /\ multiplication_overflows(ms_input)
    /\ ms_pc' = "trapped"
    /\ UNCHANGED <<ms_input, ms_bytes, ms_exc, ms_other, ms_out>>
    /\ UNCHANGED <<bridgeVars, subnetVars, imageVars, kvmVars>>

NextMemory == MS_Construct \/ MS_Throw \/ MS_Trap

SpecMemory == InitMemory /\ [][NextMemory]_vars


(***************************************************************************)
(* Reading a MemorySize construction                                       *)
(***************************************************************************)

\* the suffixes of the documented forms that scale by kilo^k:
\* a unit letter in either case, then an optional B or b
SizeSuffixes(k) ==
    LET letters == IF k = 0 THEN {}
                   ELSE IF k = 1 THEN {"K", "k"}
                   ELSE IF k = 2 THEN {"M", "m"}
                   ELSE {"G", "g"}
        units == IF k = 0 THEN {<<>>} ELSE {<<u>> : u \in letters}
    IN units \cup {u \o <<b>> : u \in units, b \in {"B", "b"}}

\* s is n decimal digits followed by a suffix that scales by kilo^k
HasSizeForm(s, n, k) ==
    /\ n >= 1
    /\ n <= Len(s)
    /\ \A i \in 1..n : is_digit(s[i])
    /\ SubSeq(s, n + 1, Len(s)) \in SizeSuffixes(k)

\* the construction is over, one way or the other
Constructed == ms_pc = "constructed"
ConstructionOver == ms_pc # "call"

\* C21: for every input '<n>', '<n>K', '<n>M', '<n>G' (unit in either case, with or
\* without a trailing B or b) the construction yields a MemorySize whose byte count
\* is n, n*1024, n*1024^2, n*1024^3 respectively
C21_ValidInputsAreScaled ==
    \A n \in 1..Len(ms_input), k \in 0..3 :
        (ConstructionOver /\ HasSizeForm(ms_input, n, k))
            => /\ Constructed
               /\ ms_bytes = times_kilo_exact(from_decimal(SubSeq(ms_input, 1, n)), k)

\* the same for the inputs whose byte count n*1024^k is at most LLONG_MAX
C21_InRangeInputsAreScaled ==
    \A n \in 1..Len(ms_input), k \in 0..3 :
        (/\ ConstructionOver
         /\ HasSizeForm(ms_input, n, k)
         /\ fits_long_long(times_kilo_exact(from_decimal(SubSeq(ms_input, 1, n)), k)))
            => /\ Constructed
               /\ ms_bytes = times_kilo_exact(from_decimal(SubSeq(ms_input, 1, n)), k)


\* the string has one of the forms <n>, <n>K, <n>M, <n>G, with or without B
ConformsToGrammar(s) == \E n \in 1..Len(s), k \in 0..3 : HasSizeForm(s, n, k)

Thrown == ms_pc = "thrown"

\* C22: the empty string constructs a MemorySize of zero bytes; a non-empty string
\* that does not conform to the grammar fails with InvalidMemorySizeException
\* carrying that very string; and a MemorySize is only ever constructed from the
\* empty string or from a string that conforms
C22_NonConformingInputIsRejected ==
    ConstructionOver =>
        /\ ms_input = <<>> => (Constructed /\ ms_bytes = <<>>)
        /\ (ms_input # <<>> /\ ~ConformsToGrammar(ms_input))
              => /\ Thrown
                 /\ ms_exc = <<"InvalidMemorySizeException", ms_input>>
                 /\ ms_bytes = <<>>
        /\ Constructed => (ms_input = <<>> \/ ConformsToGrammar(ms_input))
        /\ Thrown => (ms_input # <<>> /\ ~ConformsToGrammar(ms_input))

\* a unit letter too many has been rejected
C22_Witness ==
    /\ Thrown
    /\ ms_input = <<"1", "K", "K">>
    /\ ms_exc = <<"InvalidMemorySizeException", <<"1", "K", "K">>>>


(***************************************************************************)
(* The kvm checks: check_for_kvm_support runs the helper check_kvm_support *)
(* and check_if_kvm_is_in_use asks /dev/kvm for a VM.  errno is a name     *)
(* ("0" when nothing set it); a descriptor is a natural number, and -1 is  *)
(* what open and ioctl return on failure                                   *)
(***************************************************************************)

\* the descriptor that the kernel hands out next: the lowest one not open
lowest_free(open_fds) ==
    CHOOSE n \in 0..Cardinality(open_fds) :
        /\ n \notin open_fds
        /\ \A m \in 0..(n - 1) : m \in open_fds

\* a close that leaves the descriptor open
close_leaks(open_fds, fd, err) == [fds |-> open_fds, errno |-> err, ret |-> 0]

\* close(fd): the descriptors held afterwards and errno afterwards
close(open_fds, fd, err) ==
    IF fd \in open_fds
    THEN [fds |-> open_fds \ {fd}, errno |-> err, ret |-> 0]
    ELSE [fds |-> open_fds, errno |-> "EBADF", ret |-> -1]

\* why open("/dev/kvm", O_RDWR | O_CLOEXEC) fails
OpenErrors == {"ENOENT", "EACCES"}

\* why ioctl(kvm_fd, KVM_CREATE_VM, 0) fails on an open /dev/kvm
IoctlErrors == {"EBUSY", "ENOMEM", "EINTR"}

\* the condition under which check_if_kvm_is_in_use throws
kvm_in_use(ret, err) == ret = -1 /\ err = "EBUSY"

kvm_in_use_error ==
    <<"Another virtual machine manager is currently running",
      ". Please shut it down before starting a Multipass instance.">>

\* one system call in the trace
SysCall(name, arg, ret, err) == [op |-> name, arg |-> arg, ret |-> ret, errno |-> err]

\* QProcess::error() after waitForFinished()
ProcessErrors == {"FailedToStart", "Crashed", "Timedout", "UnknownError"}

\* QProcess::exitCode()
ExitCodes == {0, 1, 2, 255}

\* what the helper wrote, in the order it wrote it: pieces on stdout and on stderr
out_chunk == [channel |-> "stdout", text |-> <<" ", "o", "k", "\n">>]
err_chunk == [channel |-> "stderr", text |-> <<"n", "o", " ", "k", "v", "m", "\n">>]
HelperWrites == {<<>>, <<out_chunk>>, <<err_chunk>>, <<out_chunk, err_chunk>>,
                 <<err_chunk, out_chunk>>}

\* check_kvm.setProcessChannelMode(QProcess::MergedChannels)
check_kvm_channel_mode == "MergedChannels"

\* QProcess::readAll(): the standard output channel, with which MergedChannels
\* merges the standard error
RECURSIVE readAll(_, _)
readAll(mode, writes) ==
    IF Len(writes) = 0 THEN <<>>
    ELSE (IF mode = "MergedChannels" \/ Head(writes).channel = "stdout"
          THEN Head(writes).text ELSE <<>>) \o readAll(mode, Tail(writes))

\* the program that check_for_kvm_support starts: it sits in applicationDirPath()
check_kvm_program == <<"applicationDirPath", "/", "check_kvm_support">>

\* every exit code but 0 taken for a failure
helper_exit_nonzero(exit_code) == exit_code # 0

\* the condition under which check_for_kvm_support reports the helper's message
helper_reported_failure(exit_code) == exit_code = 1

failed_to_start_error ==
    <<"The check_kvm_support script failed to start", ". Ensure it is in multipassd's PATH.">>

\* the helper process after start() and waitForFinished()
HelperProcess(error, exit_code, writes) ==
    [op |-> "QProcess",
     program |-> check_kvm_program,
     args |-> <<>>,
     channel_mode |-> check_kvm_channel_mode,
     error |-> error,
     exit_code |-> exit_code,
     writes |-> writes]

InitKvm ==
    /\ InitCommon
    /\ pc = [c \in Calls |-> "absent"]
    /\ interface = [c \in Calls |-> IfaceName(4)]
    /\ SubnetIdle
    /\ ImageIdle
    /\ MemoryIdle
    /\ kvm_pc = "call"
    /\ kvm_op \in {"check_for_kvm_support", "check_if_kvm_is_in_use"}
    /\ errno \in {"0", "EBUSY", "EINTR"}
    /\ fds \in {StdFds, StdFds \cup {3}, StdFds \cup {4}}
    /\ kvm_fd = 0
    /\ kvm_ret = 0
    /\ kvm_trace = <<>>
    /\ kvm_exc = NoException

\* auto kvm_fd = open("/dev/kvm", O_RDWR | O_CLOEXEC);
KVM_Open ==
    /\ kvm_pc = "call"
    /\ kvm_op = "check_if_kvm_is_in_use"
    /\ \/ /\ kvm_fd' = lowest_free(fds)
          /\ fds' = fds \cup {lowest_free(fds)}
          /\ errno' = errno
       \/ /\ kvm_fd' = -1
          /\ fds' = fds
          /\ errno' \in OpenErrors
    /\ kvm_trace' = Append(kvm_trace, SysCall("open", "/dev/kvm", kvm_fd', errno'))
    /\ kvm_pc' = "ioctl"
    /\ UNCHANGED <<kvm_op, kvm_ret, kvm_exc>>
    /\ UNCHANGED <<bridgeVars, subnetVars, imageVars, memoryVars>>

\* auto ret = ioctl(kvm_fd, KVM_CREATE_VM, (unsigned long)0);
KVM_Ioctl ==
    /\ kvm_pc = "ioctl"
    /\ IF kvm_fd \notin fds
       THEN /\ kvm_ret' = -1
            /\ fds' = fds
            /\ errno' = "EBADF"
       ELSE \/ /\ kvm_ret' = lowest_free(fds)
               /\ fds' = fds \cup {lowest_free(fds)}
               /\ errno' = errno
            \/ /\ kvm_ret' = -1
               /\ fds' = fds
               /\ errno' \in IoctlErrors
    /\ kvm_trace' = Append(kvm_trace, SysCall("ioctl", kvm_fd, kvm_ret', errno'))
    /\ kvm_pc' = "close"
    /\ UNCHANGED <<kvm_op, kvm_fd, kvm_exc>>
    /\ UNCHANGED <<bridgeVars, subnetVars, imageVars, memoryVars>>

\* close(kvm_fd);
KVM_CloseDevice ==
    /\ kvm_pc = "close"
    /\ LET c == close(fds, kvm_fd, errno)
       IN /\ fds' = c.fds
          /\ errno' = c.errno
          /\ kvm_trace' = Append(kvm_trace, SysCall("close", kvm_fd, c.ret, c.errno))
    /\ kvm_pc' = "test"
    /\ UNCHANGED <<kvm_op, kvm_fd, kvm_ret, kvm_exc>>
    /\ UNCHANGED <<bridgeVars, subnetVars, imageVars, memoryVars>>

\* if (ret == -1 && errno == EBUSY) throw std::runtime_error(...)
KVM_InUse ==
    /\ kvm_pc = "test"
    /\ kvm_in_use(kvm_ret, errno)
    /\ kvm_exc' = kvm_in_use_error
    /\ kvm_pc' = "thrown"
    /\ UNCHANGED <<kvm_op, errno, fds, kvm_fd, kvm_ret, kvm_trace>>
    /\ UNCHANGED <<bridgeVars, subnetVars, imageVars, memoryVars>>

\* close(ret); and the function returns
KVM_CloseVm ==
    /\ kvm_pc = "test"
    /\ ~kvm_in_use(kvm_ret, errno)
    /\ LET c == close(fds, kvm_ret, errno)
       IN /\ fds' = c.fds
          /\ errno' = c.errno
          /\ kvm_trace' = Append(kvm_trace, SysCall("close", kvm_ret, c.ret, c.errno))
    /\ kvm_pc' = "returned"
    /\ UNCHANGED <<kvm_op, kvm_fd, kvm_ret, kvm_exc>>
    /\ UNCHANGED <<bridgeVars, subnetVars, imageVars, memoryVars>>

\* check_kvm.start(...); check_kvm.waitForFinished(); the helper is gone, or
\* could not be started, or is still running after the wait
KS_Run ==
    /\ kvm_pc = "call"
    /\ kvm_op = "check_for_kvm_support"
    /\ \E error \in ProcessErrors, exit_code \in ExitCodes, writes \in HelperWrites :
          /\ error = "FailedToStart" => writes = <<>>
          /\ error = "Timedout" => exit_code = 0
          /\ kvm_trace' = Append(kvm_trace, HelperProcess(error, exit_code, writes))
    /\ kvm_pc' = "finished"
    /\ UNCHANGED <<kvm_op, errno, fds, kvm_fd, kvm_ret, kvm_exc>>
    /\ UNCHANGED <<bridgeVars, subnetVars, imageVars, memoryVars>>

\* if (check_kvm.error() == QProcess::FailedToStart) throw
KS_FailedToStart ==
    /\ kvm_pc = "finished"
    /\ kvm_trace[1].error = "FailedToStart"
    /\ kvm_exc' = failed_to_start_error
    /\ kvm_pc' = "thrown"
    /\ UNCHANGED <<kvm_op, errno, fds, kvm_fd, kvm_ret, kvm_trace>>
    /\ UNCHANGED <<bridgeVars, subnetVars, imageVars, memoryVars>>

\* if (check_kvm.exitCode() == 1) throw std::runtime_error(readAll().trimmed())
KS_Reported ==
    /\ kvm_pc = "finished"
    /\ kvm_trace[1].error # "FailedToStart"
    /\ helper_reported_failure(kvm_trace[1].exit_code)
    /\ kvm_exc' = trimmed(readAll(kvm_trace[1].channel_mode, kvm_trace[1].writes))
    /\ kvm_pc' = "thrown"
    /\ UNCHANGED <<kvm_op, errno, fds, kvm_fd, kvm_ret, kvm_trace>>
    /\ UNCHANGED <<bridgeVars, subnetVars, imageVars, memoryVars>>

\* neither: the function returns
KS_Return ==
    /\ kvm_pc = "finished"
    /\ kvm_trace[1].error # "FailedToStart"
    /\ ~helper_reported_failure(kvm_trace[1].exit_code)
    /\ kvm_pc' = "returned"
    /\ UNCHANGED <<kvm_op, errno, fds, kvm_fd, kvm_ret, kvm_trace, kvm_exc>>
    /\ UNCHANGED <<bridgeVars, subnetVars, imageVars, memoryVars>>

NextKvm ==
    \/ KVM_Open
    \/ KVM_Ioctl
    \/ KVM_CloseDevice
    \/ KVM_InUse
    \/ KVM_CloseVm
    \/ KS_Run
    \/ KS_FailedToStart
    \/ KS_Reported
    \/ KS_Return

SpecKvm == InitKvm /\ [][NextKvm]_vars


(***************************************************************************)
(* Reading the trace of a kvm check                                        *)
(***************************************************************************)

KvmThrown == kvm_pc = "thrown"
KvmReturned == kvm_pc = "returned"
InUseCheckOver == kvm_op = "check_if_kvm_is_in_use" /\ (KvmThrown \/ KvmReturned)
SupportCheckOver == kvm_op = "check_for_kvm_support" /\ (KvmThrown \/ KvmReturned)

\* the calls of the trace that handed out a descriptor
HandedOut == {i \in 1..Len(kvm_trace) : kvm_trace[i].op \in {"open", "ioctl"} /\ kvm_trace[i].ret # -1}

\* the descriptor handed out by call i was closed later, successfully
ClosedLater(i) ==
    \E j \in (i + 1)..Len(kvm_trace) :
        /\ kvm_trace[j].op = "close"
        /\ kvm_trace[j].arg = kvm_trace[i].ret
        /\ kvm_trace[j].ret = 0

\* C23: check_if_kvm_is_in_use fails, with 'Another virtual machine manager is
\* currently running', exactly when the create-VM ioctl returned -1 with errno
\* EBUSY, and returns otherwise; on either exit the descriptor that open returned
\* has been closed, and so has the VM descriptor of a successful ioctl
C23_InUseOnlyOnEBUSYAndDescriptorsClosed ==
    InUseCheckOver =>
        /\ kvm_trace[1].op = "open" /\ kvm_trace[2].op = "ioctl"
        /\ kvm_trace[2].arg = kvm_trace[1].ret
        /\ KvmThrown <=> (kvm_trace[2].ret = -1 /\ kvm_trace[2].errno = "EBUSY")
        /\ KvmThrown => HasSubstr(kvm_exc, "Another virtual machine manager is currently running")
        /\ KvmReturned => kvm_exc = NoException
        /\ \A i \in HandedOut : kvm_trace[i].ret \notin fds /\ ClosedLater(i)

\* /dev/kvm was opened, the ioctl said EBUSY, the check threw with nothing left open
C23_Witness ==
    /\ InUseCheckOver
    /\ KvmThrown
    /\ kvm_trace[1].ret # -1
    /\ kvm_trace[1].ret \notin fds

\* a VM was created and both descriptors were closed, with a stale EBUSY in errno
C23_WitnessCreated ==
    /\ InUseCheckOver
    /\ KvmReturned
    /\ HandedOut = {1, 2}
    /\ errno = "EBUSY"


\* the helper process of the check
Helper == kvm_trace[1]

\* what the helper wrote on both channels, in order, without the white space
\* around it
CombinedOutput(writes) ==
    CASE writes = <<>> -> <<>>
      [] writes = <<out_chunk>> -> <<"o", "k">>
      [] writes = <<err_chunk>> -> <<"n", "o", " ", "k", "v", "m">>
      [] writes = <<out_chunk, err_chunk>> ->
             <<"o", "k", "\n", "n", "o", " ", "k", "v", "m">>
      [] writes = <<err_chunk, out_chunk>> ->
             <<"n", "o", " ", "k", "v", "m", "\n", " ", "o", "k">>

\* C24: check_for_kvm_support fails when the helper failed to start (a
\* configuration error) and when the helper exited with code 1 (the error text is
\* then the helper's combined output, trimmed); for every other outcome, any exit
\* code other than 1 included, it returns
C24_HelperOutcomeDecides ==
    SupportCheckOver =>
        /\ Len(kvm_trace) = 1 /\ Helper.op = "QProcess"
        /\ KvmThrown <=> (Helper.error = "FailedToStart" \/ Helper.exit_code = 1)
        /\ Helper.error = "FailedToStart"
              => HasSubstr(kvm_exc, "The check_kvm_support script failed to start")
        /\ (Helper.error # "FailedToStart" /\ Helper.exit_code = 1)
              => kvm_exc = CombinedOutput(Helper.writes)
        /\ KvmReturned => kvm_exc = NoException

\* the helper exited with 1 after writing on both channels
C24_Witness ==
    /\ SupportCheckOver
    /\ KvmThrown
    /\ Helper.error = "UnknownError"
    /\ Helper.exit_code = 1
    /\ Helper.writes = <<out_chunk, err_chunk>>

\* the helper exited with 2 and the check returned
C24_WitnessOtherCode ==
    /\ SupportCheckOver
    /\ KvmReturned
    /\ Helper.exit_code = 2


(***************************************************************************)
(* The forward calls, the names and the settings of create_bridge_with     *)
(***************************************************************************)

\* the bus operation is a method call on the Settings object of NetworkManager
OnSettings(e) ==
    /\ e.service = "org.freedesktop.NetworkManager"
    /\ e.path = "/org/freedesktop/NetworkManager/Settings"
    /\ e.interface = "org.freedesktop.NetworkManager.Settings"

\* the bus operation is a method call on the root object of NetworkManager
OnRoot(e) ==
    /\ e.service = "org.freedesktop.NetworkManager"
    /\ e.path = "/org/freedesktop/NetworkManager"
    /\ e.interface = "org.freedesktop.NetworkManager"

\* the payload is the parent's (a bridge) or the child's (an ethernet slave)
IsParentSettings(args) == Len(args) = 1 /\ args[1]["connection"]["type"] = "bridge"
IsChildSettings(args) == Len(args) = 1 /\ args[1]["connection"]["type"] = "802-3-ethernet"

\* C25: at every moment the forward method calls of a create_bridge_with call are a
\* prefix of AddConnection(parent settings) on Settings, AddConnection(child
\* settings) on Settings, ActivateConnection(child path, '/', '/') on the root
\* object: each is made at most once and never retried, a later one only after
\* every earlier one returned a valid reply, and ActivateConnection receives the
\* very object path that the second AddConnection returned
C25_ForwardCallsArePrefixOfTheThree ==
    \A c \in Calls :
        LET f == Forward(c) IN
        /\ Len(f) <= 3
        /\ Len(f) >= 1 =>
              /\ f[1].method = "AddConnection"
              /\ OnSettings(f[1])
              /\ IsParentSettings(f[1].args)
        /\ Len(f) >= 2 =>
              /\ f[1].ok
              /\ f[2].method = "AddConnection"
              /\ OnSettings(f[2])
              /\ IsChildSettings(f[2].args)
        /\ Len(f) >= 3 =>
              /\ f[1].ok /\ f[2].ok
              /\ f[3].method = "ActivateConnection"
              /\ OnRoot(f[3])
              /\ f[3].args = <<f[2].value, "/", "/">>

\* all three calls were made and the activation was accepted
C25_Witness ==
    /\ pc[1] = "done"
    /\ Len(Forward(1)) = 3
    /\ Forward(1)[3].ok
    /\ Forward(1)[3].args[1] = "/org/freedesktop/NetworkManager/Settings/2"


\* the requests for an interface on the given object that the call made to the bus
Requests(c, obj) ==
    SelectSeq(calls[c], LAMBDA e : e.op = "get_interface" /\ e.path = obj)

\* the bus was connected and the interface it returned for the root object is not valid
RootInterfaceInvalid(c) ==
    /\ Len(calls[c]) >= 2
    /\ calls[c][1].op = "is_connected" /\ calls[c][1].ok
    /\ \E i \in 1..Len(Requests(c, "/org/freedesktop/NetworkManager")) :
           ~Requests(c, "/org/freedesktop/NetworkManager")[i].ok

\* C26: when the bus is connected and the root NetworkManager interface is not
\* valid, create_bridge_with has requested both interfaces from the bus, the
\* Settings one exactly once and the root one exactly once, before it fails with
\* 'Could not reach remote D-Bus object'
C26_BothInterfacesRequestedBeforeFailing ==
    \A c \in Calls :
        (pc[c] = "done" /\ RootInterfaceInvalid(c)) =>
            /\ Len(Requests(c, "/org/freedesktop/NetworkManager")) = 1
            /\ Len(Requests(c, "/org/freedesktop/NetworkManager/Settings")) = 1
            /\ HasSubstr(exc[c], "Could not reach remote D-Bus object")

\* what the call does in that case: the root interface is requested once, the
\* Settings interface is not requested, and the failure is the one named
C26_OnlyRootRequestedBeforeFailing ==
    \A c \in Calls :
        (pc[c] = "done" /\ RootInterfaceInvalid(c)) =>
            /\ Len(Requests(c, "/org/freedesktop/NetworkManager")) = 1
            /\ Len(Requests(c, "/org/freedesktop/NetworkManager/Settings")) = 0
            /\ HasSubstr(exc[c], "Could not reach remote D-Bus object")


\* the bus operations of a call that failed, Delete apart
ForwardFailures(c) ==
    SelectSeq(calls[c], LAMBDA e : ~e.ok /\ ~(e.op = "call" /\ e.method = "Delete"))

\* the Delete calls of a call that failed
DeleteFailures(c) == SelectSeq(DeleteOps(c), LAMBDA e : ~e.ok)

\* what() of the exceptions that the rollback of a call raised: top_catch_all
\* logged each of them after its own introduction
RollbackExceptions(c) ==
    LET errors == SelectSeq(log[c], LAMBDA l : l.level = "error")
    IN [i \in 1..Len(errors) |-> Tail(errors[i].text)]

\* C27: a failure of the bus-call layer starts with 'Could not rollback bridge' if
\* and only if a Delete call of the rollback raised it; a failure raised by the bus
\* connection, by the resolution of an interface, by AddConnection or by
\* ActivateConnection always starts with 'Could not create bridge'
C27_RollbackPrefixOnlyForDelete ==
    \A c \in Calls :
        \* the failure in flight comes from the forward part
        /\ exc[c] # NoException <=> Len(ForwardFailures(c)) = 1
        /\ exc[c] # NoException =>
              /\ exc[c][1] = "Could not create bridge"
              /\ ~HasSubstr(exc[c], "Could not rollback bridge")
        \* the failures of the rollback are those of its Delete calls
        /\ Len(RollbackExceptions(c)) = Len(DeleteFailures(c))
        /\ \A i \in 1..Len(RollbackExceptions(c)) :
              /\ RollbackExceptions(c)[i][1] = "Could not rollback bridge"
              /\ HasSubstr(RollbackExceptions(c)[i], "Delete")
              /\ ~HasSubstr(RollbackExceptions(c)[i], "Could not create bridge")

\* an AddConnection failed with the one prefix and a Delete with the other
C27_Witness ==
    \E c \in Calls :
        /\ pc[c] = "done"
        /\ Len(Forward(c)) = 2 /\ ~Forward(c)[2].ok
        /\ exc[c][1] = "Could not create bridge"
        /\ Len(DeleteFailures(c)) = 1
        /\ RollbackExceptions(c)[1][1] = "Could not rollback bridge"


\* 'br-' followed by the interface name, cut after its first 15 characters
ExpectedParentName(iface) ==
    [i \in 1..(IF Len(iface) + 3 <= 15 THEN Len(iface) + 3 ELSE 15) |->
        IF i = 1 THEN "b" ELSE IF i = 2 THEN "r" ELSE IF i = 3 THEN "-" ELSE iface[i - 3]]

\* the parent name followed by '-child'
ExpectedChildName(iface) == ExpectedParentName(iface) \o <<"-", "c", "h", "i", "l", "d">>

\* the AddConnection calls of a call, in order
AddConnections(c) == SelectSeq(Forward(c), LAMBDA e : e.method = "AddConnection")

\* the names that the call announced and sent
AnnouncedNames(c) ==
    {Tail(log[c][i].text) : i \in {j \in 1..Len(log[c]) :
                                      Head(log[c][j].text) \in {"Creating bridge: ", "Created bridge: "}}}

ProbesOf(c) ==
    IF Generated(c)
    THEN {p \in {gs_checks[c][1].low, gs_checks[c][1].high} : p.probe.cmd = "ping"}
    ELSE {}

\* C30: each gateway probe of a candidate is one ICMP echo (ping with a count of 1)
\* with a wait of 1 second, so that a probe of an address on which a host answers
\* reports success and generate_random_subnet rejects the candidate: no returned
\* candidate has a host answering on <prefix>.1 or on <prefix>.254
C30_ProbeIsASingleEchoThatDetectsHosts ==
    \A c \in Calls :
        \A p \in ProbesOf(c) :
            /\ p.probe.args[4] = "-c" /\ p.probe.args[5] = <<"1">>
            /\ p.probe.args[6] = "-W" /\ p.probe.args[7] = <<"1">>
            /\ p.answers => p.reached
            /\ ~p.answers

\* the wait of the probe is 1 second, and no probe ever reports success
C30_ProbeNeverSucceeds ==
    \A c \in Calls :
        \A p \in ProbesOf(c) :
            /\ p.probe.args[6] = "-W" /\ p.probe.args[7] = <<"1">>
            /\ p.probe.args[4] = "-c" /\ p.probe.args[5] = <<"-", "1">>
            /\ ~p.reached


(***************************************************************************)
(* The subnet file after an allocation                                     *)
(***************************************************************************)

\* the text is the decimal notation of a number of 0..255
IsOctetText(t) ==
    /\ Len(t) \in 1..3
    /\ \A i \in 1..Len(t) : t[i] \in {"0", "1", "2", "3", "4", "5", "6", "7", "8", "9"}
    /\ Len(t) > 1 => t[1] # "0"
    /\ Len(t) = 3 =>
          \/ t[1] = "1"
          \/ t[1] = "2" /\ t[2] \in {"0", "1", "2", "3", "4"}
          \/ t[1] = "2" /\ t[2] = "5" /\ t[3] \in {"0", "1", "2", "3", "4", "5"}

\* the text is '10.A.B' with A and B in 0..255, and nothing else
IsPrefixText(s) ==
    \E la \in 1..3, lb \in 1..3 :
        /\ Len(s) = 3 + la + 1 + lb
        /\ SubSeq(s, 1, 3) = <<"1", "0", ".">>
        /\ IsOctetText(SubSeq(s, 4, 3 + la))
        /\ s[4 + la] = "."
        /\ IsOctetText(SubSeq(s, 5 + la, Len(s)))

\* the call found no route naming its bridge and an empty subnet file, and returned
Allocated(c) ==
    /\ gs_pc[c] = "done"
    /\ ~RouteNamesBridge(c)
    /\ gs_file[c] = <<>>
    /\ gs_exc[c] = NoException

\* C31: a get_subnet call that allocates (no route names the bridge, subnet file
\* absent or empty) returns the first candidate '10.A.B', A and B in 0..255, that
\* survived the route check and both gateway probes, and from then on the subnet
\* file holds exactly the returned prefix; whatever calls were made one after the
\* other, the file is empty or holds exactly one such prefix
C31_FileHoldsExactlyTheAllocatedPrefix ==
    /\ subnet_file = <<>> \/ IsPrefixText(subnet_file)
    /\ \A c \in Calls :
          Allocated(c) =>
              /\ Generated(c)
              /\ IsPrefixText(gs_result[c])
              /\ gs_result[c] = gs_checks[c][1].subnet
              \* every candidate before it was rejected
              /\ gs_i[c] = gs_draws[c] - 1
              /\ ~gs_checks[c][1].used
              /\ ~contains(routes, gs_result[c])
              /\ gs_checks[c][1].low.probe.cmd = "ping" /\ ~gs_checks[c][1].low.reached
              /\ gs_checks[c][1].high.probe.cmd = "ping" /\ ~gs_checks[c][1].high.reached
              /\ subnet_file = gs_result[c]

\* the first call allocated 10.255.255 as its third candidate and the second call
\* is over as well
C31_Witness ==
    /\ Allocated(1)
    /\ gs_draws[1] = 3
    /\ gs_result[1] = <<"1", "0", ".", "2", "5", "5", ".", "2", "5", "5">>
    /\ subnet_file = gs_result[1]
    /\ gs_pc[2] = "done"

-----------------------------------------------------------------------------
(* get_subnet, two calls interleaved                                       *)

\* the call found the subnet file empty when it opened it
ObservedEmpty(c) == gs_file[c] = <<>>

\* the text y laid over the start of the text x: what an empty file holds after x
\* and then y were written at its start
WrittenInOrder(x, y) ==
    [i \in 1..(IF Len(x) > Len(y) THEN Len(x) ELSE Len(y)) |-> IF i <= Len(y) THEN y[i] ELSE x[i]]

\* C32: get_subnet takes no lock on the subnet file: a call that is about to open
\* the file is never held back by the other call, whatever that one is doing; once
\* two interleaved calls have both found the file empty, each allocates its own
\* candidate, writes it and returns it, and the file holds the two writes one over
\* the other in the order they were made
C32_NoLockBothAllocate ==
    /\ \A c \in Calls : gs_pc[c] = "open" => ENABLED GS_OpenFile(c)
    /\ \A c \in Calls :
          (gs_pc[c] = "done" /\ ObservedEmpty(c)) =>
              /\ Generated(c)
              /\ gs_result[c] = gs_checks[c][1].subnet
              /\ HostOp("file", "write") \in gs_ops[c]
              /\ HostOp("file", "readAll") \notin gs_ops[c]
    /\ (\A c \in Calls : gs_pc[c] = "done" /\ ObservedEmpty(c)) =>
          subnet_file \in {WrittenInOrder(gs_result[1], gs_result[2]),
                           WrittenInOrder(gs_result[2], gs_result[1])}

\* both calls found the file empty, they returned different prefixes, and the file
\* holds the prefix of the second call, not the one the first call returned
C32_Witness ==
    /\ \A c \in Calls : gs_pc[c] = "done" /\ ObservedEmpty(c)
    /\ gs_result[1] # gs_result[2]
    /\ subnet_file = gs_result[2]
    /\ subnet_file # gs_result[1]

\* both calls found the file empty and the file holds what neither returned: the
\* shorter prefix of the later write followed by the end of the earlier one
C32_FileIsNeitherResult ==
    /\ \A c \in Calls : gs_pc[c] = "done" /\ ObservedEmpty(c)
    /\ subnet_file # gs_result[1]
    /\ subnet_file # gs_result[2]

-----------------------------------------------------------------------------
(* convert_to_qcow_if_necessary on output it cannot use                    *)

\* the standard output of the info process, as QJsonDocument::fromJson read it
InfoOutput == im_procs[1].stdout

\* the three kinds of output that name no format
NotValidJson == ~InfoOutput.json
NotAJsonObject == InfoOutput.json /\ ~InfoOutput.object
NoStringFormat ==
    /\ InfoOutput.json
    /\ InfoOutput.object
    /\ InfoOutput.format = <<>> \/ InfoOutput.format[1].type # "string"

\* C33: when the info process completes successfully and its standard output is not
\* valid JSON, is no JSON object, or has no string "format" member,
\* convert_to_qcow_if_necessary returns image_path unchanged, throws nothing, and
\* qemu-img was run exactly once (the info process, no convert)
C33_UnusableOutputSoftFails ==
    (ConvertOver /\ CompletedOk(1) /\ (NotValidJson \/ NotAJsonObject \/ NoStringFormat)) =>
        /\ im_result = im_image_path
        /\ im_exc = NoException
        /\ Len(im_procs) = 1
        /\ im_procs[1].args[1] = "info"

\* the info process completed successfully with output that is no JSON, and the call
\* returned image_path
C33_Witness ==
    /\ ConvertOver /\ CompletedOk(1) /\ NotValidJson
    /\ im_result = im_image_path

\* the same with an array or a number as the document
C33_WitnessNotAnObject ==
    /\ ConvertOver /\ CompletedOk(1) /\ NotAJsonObject
    /\ im_result = im_image_path

\* the same with an object whose "format" member is a number
C33_WitnessFormatNoString ==
    /\ ConvertOver /\ CompletedOk(1) /\ NoStringFormat
    /\ InfoOutput.format # <<>>
    /\ im_result = im_image_path

-----------------------------------------------------------------------------
(* The timeouts of the image tool invocations                              *)

\* the processes of the operation that were executed with the sub-command `cmd`
Invocations(cmd) == {i \in 1..Len(im_procs) : im_procs[i].args[1] = cmd}

\* C34: of the image tool invocations, the format probe (info --output=json) is
\* executed with no timeout bound, while the convert and the resize invocation are
\* both executed with the one fixed timeout constant image_resize_timeout
C34_OnlyConvertAndResizeAreBounded ==
    /\ \A i \in 1..Len(im_procs) : im_procs[i].args[1] \in {"info", "convert", "resize"}
    /\ \A i \in Invocations("info") :
          im_procs[i].args[2] = "--output=json" /\ im_procs[i].timeout = "default"
    /\ \A i \in Invocations("convert") \cup Invocations("resize") :
          im_procs[i].timeout = "image_resize_timeout"

\* a conversion that ran both the format probe and the convert process
C34_Witness ==
    /\ ConvertOver
    /\ Invocations("info") = {1}
    /\ Invocations("convert") = {2}
    /\ im_procs[1].timeout # im_procs[2].timeout

\* a resize that ran its process
C34_WitnessResize == ResizeOver /\ Invocations("resize") = {1}

-----------------------------------------------------------------------------
(* MemorySize: strings without digits                                      *)

\* s is of the form [digits][k|m|g][b] with each of the three parts optional, its
\* first n characters being the digits
HasOptionalForm(s, n) ==
    /\ n <= Len(s)
    /\ \A i \in 1..n : is_digit(s[i])
    /\ \E k \in 0..3 : SubSeq(s, n + 1, Len(s)) \in SizeSuffixes(k)

\* a non-empty string of that form without a digit: a unit letter, a B, or both
OnlyUnitAndB(s) == Len(s) > 0 /\ HasOptionalForm(s, 0)

\* C35 as stated: every string of the grammar [digits][k|m|g][b], each part optional,
\* is accepted, so that a string made only of a unit letter and/or a B ('K', 'B',
\* 'MB') constructs a MemorySize instead of failing with InvalidMemorySizeException
C35_DigitsAreOptional ==
    \A n \in 0..Len(ms_input) :
        (ConstructionOver /\ HasOptionalForm(ms_input, n)) => ~Thrown

\* C35 amended: of the strings [digits][k|m|g][b] the non-empty ones are accepted only
\* with at least one digit; a string made only of a unit letter and/or a B fails
\* with InvalidMemorySizeException carrying the string
C35_DigitsAreRequired ==
    /\ \A n \in 1..Len(ms_input) :
          (ConstructionOver /\ HasOptionalForm(ms_input, n)) => ~Thrown
    /\ (ConstructionOver /\ OnlyUnitAndB(ms_input)) =>
          /\ Thrown
          /\ ms_exc = <<"InvalidMemorySizeException", ms_input>>

\* the construction from 'mB' failed
C35_Witness ==
    /\ ms_input = <<"m", "B">>
    /\ Thrown
    /\ ms_exc = <<"InvalidMemorySizeException", ms_input>>

\* the constructions from 'K' and from 'B' failed
C35_WitnessUnitOnly == ms_input = <<"K">> /\ Thrown
C35_WitnessByteOnly == ms_input = <<"B">> /\ Thrown

-----------------------------------------------------------------------------
(* MemorySize: unit accessors and comparison operators                     *)

\* MemorySize values in increasing order of their byte counts, each with the string
\* it is constructed from, its byte count in decimal, and the floors of that count
\* divided by 1024, 1024^2 and 1024^3 in decimal; the first is the negative count
\* that '8589934592G' leaves in a build whose multiplication wraps
SizeTable ==
    <<
      [text |-> <<"8", "5", "8", "9", "9", "3", "4", "5", "9", "2", "G">>, bytes |-> <<"-", "9", "2", "2", "3", "3", "7", "2", "0", "3", "6", "8", "5", "4", "7", "7", "5", "8", "0", "8">>,
       kb |-> <<>>, mb |-> <<>>, gb |-> <<>>],
      [text |-> <<>>, bytes |-> <<"0">>,
       kb |-> <<"0">>, mb |-> <<"0">>, gb |-> <<"0">>],
      [text |-> <<"1">>, bytes |-> <<"1">>,
       kb |-> <<"0">>, mb |-> <<"0">>, gb |-> <<"0">>],
      [text |-> <<"1", "0", "2", "3">>, bytes |-> <<"1", "0", "2", "3">>,
       kb |-> <<"0">>, mb |-> <<"0">>, gb |-> <<"0">>],
      [text |-> <<"1", "K">>, bytes |-> <<"1", "0", "2", "4">>,
       kb |-> <<"1">>, mb |-> <<"0">>, gb |-> <<"0">>],
      [text |-> <<"1", "0", "2", "5">>, bytes |-> <<"1", "0", "2", "5">>,
       kb |-> <<"1">>, mb |-> <<"0">>, gb |-> <<"0">>],
      [text |-> <<"1", "0", "4", "8", "5", "7", "5">>, bytes |-> <<"1", "0", "4", "8", "5", "7", "5">>,
       kb |-> <<"1", "0", "2", "3">>, mb |-> <<"0">>, gb |-> <<"0">>],
      [text |-> <<"1", "M">>, bytes |-> <<"1", "0", "4", "8", "5", "7", "6">>,
       kb |-> <<"1", "0", "2", "4">>, mb |-> <<"1">>, gb |-> <<"0">>],
      [text |-> <<"1", "0", "7", "3", "7", "4", "1", "8", "2", "3">>, bytes |-> <<"1", "0", "7", "3", "7", "4", "1", "8", "2", "3">>,
       kb |-> <<"1", "0", "4", "8", "5", "7", "5">>, mb |-> <<"1", "0", "2", "3">>, gb |-> <<"0">>],
      [text |-> <<"1", "G">>, bytes |-> <<"1", "0", "7", "3", "7", "4", "1", "8", "2", "4">>,
       kb |-> <<"1", "0", "4", "8", "5", "7", "6">>, mb |-> <<"1", "0", "2", "4">>, gb |-> <<"1">>],
      [text |-> <<"3", "2", "2", "1", "2", "2", "5", "4", "7", "3">>, bytes |-> <<"3", "2", "2", "1", "2", "2", "5", "4", "7", "3">>,
       kb |-> <<"3", "1", "4", "5", "7", "2", "8">>, mb |-> <<"3", "0", "7", "2">>, gb |-> <<"3">>],
      [text |-> <<"9", "2", "2", "3", "3", "7", "2", "0", "3", "6", "8", "5", "4", "7", "7", "5", "8", "0", "7">>, bytes |-> <<"9", "2", "2", "3", "3", "7", "2", "0", "3", "6", "8", "5", "4", "7", "7", "5", "8", "0", "7">>,
       kb |-> <<"9", "0", "0", "7", "1", "9", "9", "2", "5", "4", "7", "4", "0", "9", "9", "1">>, mb |-> <<"8", "7", "9", "6", "0", "9", "3", "0", "2", "2", "2", "0", "7">>, gb |-> <<"8", "5", "8", "9", "9", "3", "4", "5", "9", "1">>]
    >>

AccessorNames == {"in_bytes", "in_kilobytes", "in_megabytes", "in_gigabytes"}
OperatorNames == {"==", "!=", "<", ">", "<=", ">="}

\* two MemorySize values were constructed; nothing was asked of them yet
InitMemoryOps ==
    /\ InitCommon
    /\ pc = [c \in Calls |-> "absent"]
    /\ interface = [c \in Calls |-> IfaceName(4)]
    /\ SubnetIdle
    /\ ImageIdle
    /\ KvmIdle
    /\ ms_pc = "constructed"
    /\ \E i \in 1..Len(SizeTable), j \in 1..Len(SizeTable) :
          /\ ms_input = SizeTable[i].text
          /\ ms_bytes = MemorySize(SizeTable[i].text)
          /\ ms_other = MemorySize(SizeTable[j].text)
    /\ ms_exc = NoException
    /\ ms_out = <<>>

\* one of the accessors is called on the first MemorySize
MS_Accessor ==
    /\ ms_pc = "constructed"
    /\ \E op \in AccessorNames :
          ms_out' = <<[op |-> op,
                       value |-> CASE op = "in_bytes" -> ms_bytes
                                   [] op = "in_kilobytes" -> in_kilobytes(ms_bytes)
                                   [] op = "in_megabytes" -> in_megabytes(ms_bytes)
                                   [] op = "in_gigabytes" -> in_gigabytes(ms_bytes)]>>
    /\ UNCHANGED <<ms_pc, ms_input, ms_bytes, ms_exc, ms_other>>
    /\ UNCHANGED <<bridgeVars, subnetVars, imageVars, kvmVars>>

\* one of the comparison operators is applied to the two MemorySize values
MS_Compare ==
    /\ ms_pc = "constructed"
    /\ \E op \in OperatorNames :
          ms_out' = <<[op |-> op, value |-> compare(op, ms_bytes, ms_other)]>>
    /\ UNCHANGED <<ms_pc, ms_input, ms_bytes, ms_exc, ms_other>>
    /\ UNCHANGED <<bridgeVars, subnetVars, imageVars, kvmVars>>

NextMemoryOps == MS_Accessor \/ MS_Compare

SpecMemoryOps == InitMemoryOps /\ [][NextMemoryOps]_vars

\* the place of a byte count in the table
Rank(bytes) == CHOOSE i \in 1..Len(SizeTable) : QString_number(bytes) = SizeTable[i].bytes

\* the last call was `op`, and what it returned
Called(op) == ms_out # <<>> /\ ms_out[1].op = op
Returned == ms_out[1].value

\* C36: the unit accessors floor-divide the raw byte count: for a non-negative
\* MemorySize, in_kilobytes, in_megabytes and in_gigabytes are the floors of
\* bytes/1024, bytes/1024^2 and bytes/1024^3 (1023 bytes are 0 kilobytes, 1024 are
\* 1), and a quotient times its unit plus a remainder below the unit is the byte
\* count; the comparison operators compare the raw byte counts: of a < b, a == b
\* and a > b exactly the one that is the order of the byte counts holds
C36_AccessorsFloorAndOperatorsCompareBytes ==
    /\ ~is_negative(ms_bytes) =>
          /\ Called("in_kilobytes") =>
                /\ QString_number(Returned) = SizeTable[Rank(ms_bytes)].kb
                /\ \E r \in 0..(kilo - 1) : mul_add(Returned, kilo, r) = ms_bytes
          /\ Called("in_megabytes") => QString_number(Returned) = SizeTable[Rank(ms_bytes)].mb
          /\ Called("in_gigabytes") => QString_number(Returned) = SizeTable[Rank(ms_bytes)].gb
    /\ Called("<") => (Returned <=> Rank(ms_bytes) < Rank(ms_other))
    /\ Called("==") => (Returned <=> Rank(ms_bytes) = Rank(ms_other))
    /\ Called(">") => (Returned <=> Rank(ms_bytes) > Rank(ms_other))
    /\ Cardinality({op \in {"<", "==", ">"} : compare(op, ms_bytes, ms_other)}) = 1

\* 1023 bytes were asked for their kilobytes and the answer was 0
C36_Witness ==
    /\ ms_input = <<"1", "0", "2", "3">>
    /\ Called("in_kilobytes")
    /\ Returned = <<>>

\* 1024 bytes are 1 kilobyte; LLONG_MAX bytes are 2^33 - 1 gigabytes
C36_WitnessOneKilobyte ==
    /\ ms_input = <<"1", "K">>
    /\ Called("in_kilobytes")
    /\ Returned = <<1>>
C36_WitnessLargest ==
    /\ Called("in_gigabytes")
    /\ QString_number(Returned) = <<"8", "5", "8", "9", "9", "3", "4", "5", "9", "1">>

\* 1 gigabyte was compared with the largest count and found smaller
C36_WitnessLess ==
    /\ ms_input = <<"1", "G">>
    /\ QString_number(ms_other) = SizeTable[Len(SizeTable)].bytes
    /\ Called("<")
    /\ Returned

-----------------------------------------------------------------------------
(* MemorySize: counts beyond the range of long long                        *)

\* n * 1024^k for the input of the form whose first n characters are the digits
ExactProduct(s, n, k) == times_kilo_exact(from_decimal(SubSeq(s, 1, n)), k)

\* C37: the byte count of a MemorySize built from a grammar-conforming string is
\* never negative and never differs from n * multiplier; a digit string or a
\* product that does not fit a signed 64-bit integer is rejected with the
\* exception, no MemorySize being constructed from it
C37_OutOfRangeIsRejected ==
    \A n \in 1..Len(ms_input), k \in 0..3 :
        (ConstructionOver /\ HasSizeForm(ms_input, n, k)) =>
            /\ Constructed =>
                  /\ ~is_negative(ms_bytes)
                  /\ ms_bytes = ExactProduct(ms_input, n, k)
            /\ ~fits_long_long(ExactProduct(ms_input, n, k)) => Thrown

\* what the code does with such a string: a digit string above LLONG_MAX gives a
\* MemorySize of zero bytes, a product above LLONG_MAX the wrapped count or the end
\* of the process, and the exception is never thrown
C37_OutOfRangeIsNotRejected ==
    \A n \in 1..Len(ms_input), k \in 0..3 :
        (ConstructionOver /\ HasSizeForm(ms_input, n, k)
         /\ ~fits_long_long(ExactProduct(ms_input, n, k))) =>
            /\ ~Thrown
            /\ Constructed =>
                  IF fits_long_long(from_decimal(SubSeq(ms_input, 1, n)))
                  THEN ms_bytes = wrap64(ExactProduct(ms_input, n, k))
                  ELSE ms_bytes = <<>>

\* '8589934592G' constructed a MemorySize of a negative count
C37_NegativeCountConstructed ==
    /\ ms_input = <<"8", "5", "8", "9", "9", "3", "4", "5", "9", "2", "G">>
    /\ Constructed
    /\ is_negative(ms_bytes)

\* '9223372036854775808' constructed a MemorySize of zero bytes
C37_ZeroCountConstructed ==
    /\ Len(ms_input) = 19 /\ ms_input[19] = "8"
    /\ Constructed
    /\ ms_bytes = <<>>

-----------------------------------------------------------------------------
(* The targets of the rollback of create_bridge_with                       *)

\* the object paths the Delete calls of a call were made on, in order
Deleted(c) == Targets(DeleteOps(c))

\* C38: every Delete that a call of create_bridge_with issues is made on an object
\* path that one of the same call's own AddConnection calls returned, and no path
\* receives more than one Delete; so, with two calls interleaved, the rollback of
\* one never deletes a connection that the other created
C38_RollbackDeletesOnlyOwnConnections ==
    \A c \in Calls :
        /\ \A i \in 1..Len(Deleted(c)) : Deleted(c)[i] \in OwnPaths(c)
        /\ \A i, j \in 1..Len(Deleted(c)) : Deleted(c)[i] = Deleted(c)[j] => i = j
        /\ \A d \in Calls \ {c} :
              /\ \A i \in 1..Len(Deleted(c)) : Deleted(c)[i] \notin OwnPaths(d)
              /\ OwnPaths(c) \cap OwnPaths(d) = {}

\* the first call rolled back both of its connections while the second call, which
\* had added its parent in between, still has its connections registered
C38_Witness ==
    /\ Len(Deleted(1)) = 2
    /\ Cardinality(OwnPaths(1)) = 2
    /\ OwnPaths(1) \cap connections = {}
    /\ Cardinality(OwnPaths(2)) = 2
    /\ OwnPaths(2) \subseteq connections
    /\ \E i \in 1..Len(calls[1]), j \in 1..Len(calls[2]) :
          calls[1][i].op = "call" /\ calls[2][j].op = "call"
          /\ calls[1][i].method = "AddConnection" /\ calls[2][j].method = "AddConnection"
          /\ calls[1][i].ok /\ calls[2][j].ok
          /\ calls[2][j].value = PathPool[2]

====
